---- MODULE Spec2Model ----
(***************************************************************************)
(* Model of the Hive agent Composer (core/framework/composer): the graph   *)
(* state container, the node / edge / goal mutation handlers of the TUI    *)
(* and of the wizard screens, the generate triggers, the process exit      *)
(* convention and the launcher that chains composer -> runtime.            *)
(*                                                                         *)
(* Python values are represented as follows.                               *)
(*   Optional[T]   : <<>> for None, <<v>> for the value v                  *)
(*   list[T]       : a sequence                                            *)
(*   pydantic model: a record                                              *)
(*   a text input  : a string drawn from a small set of raw inputs; strip  *)
(*                   and title are tables over those inputs                *)
(***************************************************************************)
EXTENDS Integers, Sequences, FiniteSets, TLC

VARIABLES
    state,          \* ComposerApp.state : ComposerState
    selected_node,  \* GraphTreeView.selected_node : Optional[str]
    notice,         \* the last notify() call: severity and message template
    screen,         \* top of the screen stack: "agent_info" (AgentInfoModal) or "main"
    app,            \* textual App exit status: exited, return_value, return_code
    disk,           \* paths present under the output location
    written,        \* the files the last generate() call wrote, in order
    generated,      \* history: a generate() call of this session returned normally
    rendered,       \* history: what was set in every state handed to generate()
    proc,           \* exit status of the composer process, <<>> while it runs
    wrapper,        \* run_composer_then_runtime: pc, composer rc, runtime rc, result
    ret,            \* value returned by the last is_complete() call (or whether
                    \* the last direct generate() call returned), <<>> before any
    jira,           \* the Jira tool server: configuration and the last tool call
    memory          \* MemoryManager: agent_state.json, the JSON driver's _data,
                    \* the wall clock and the last call

vars == <<state, selected_node, notice, screen, app, disk, written, generated,
          rendered, proc, wrapper, ret, jira, memory>>

(***************************************************************************)
(* Bounds and input alphabets                                              *)
(***************************************************************************)
MaxEdges == 2
\* most entries the JSON memory driver holds in a modelled run
MaxEntries == 3
\* last second the wall clock of a modelled run reaches
MaxSeconds == 1

NoneVal == <<>>
Some(v) == <<v>>

NodeIds == {"a", "b", "c"}
SessionNodeIds == {"a", "b"}
RawIdInputs == {"", " ", "a", " a ", "b", "c"}
SessionRawIdInputs == {"", "a", " a ", "b"}
AgentNameInputs == {"", "agent"}
GoalNameInputs == {"", "G s"}
ReturnCodes == {0, 1, 2}

(***************************************************************************)
(* Python helpers                                                          *)
(***************************************************************************)
\* str.strip() on the raw inputs
Strip(s) ==
    CASE s = " " -> ""
      [] s = " a " -> "a"
      [] OTHER -> s

\* node_id.replace("_", " ").title() on the node ids
Title(s) ==
    CASE s = "a" -> "A"
      [] s = "b" -> "B"
      [] s = "c" -> "C"
      [] OTHER -> s

\* name.lower().replace(" ", "_") on the goal names
GoalIdOf(name) ==
    CASE name = "G s" -> "g_s"
      [] OTHER -> name

\* truthiness of an Optional[str]
TruthyOptStr(v) == v # NoneVal /\ v[1] # ""

\* truthiness of an Optional[int]
TruthyOptInt(v) == v # NoneVal /\ v[1] # 0

\* the elements of a list
Range(seq) == {seq[i] : i \in 1..Len(seq)}

IdsOf(nodes) == {nodes[i].id : i \in 1..Len(nodes)}

(***************************************************************************)
(* state.py                                                                *)
(***************************************************************************)
NodeData(id, name, tools) == [id |-> id, name |-> name, tools |-> tools]

EdgeData(source, target) ==
    [source |-> source, target |-> target, condition |-> "on_success"]

GoalData(id, name) == [id |-> id, name |-> name]

ComposerState ==
    [agent_name |-> "", agent_description |-> "", goal |-> NoneVal,
     nodes |-> <<>>, edges |-> <<>>, entry_node |-> NoneVal,
     terminal_nodes |-> <<>>, default_model |-> "gpt-4o-mini",
     max_tokens |-> 30000, selected_tools |-> <<>>]

is_complete_no_entry(s) ==
    s.agent_name # "" /\ s.goal # NoneVal /\ s.nodes # <<>>

is_complete(s) ==
    /\ s.agent_name # ""
    /\ s.goal # NoneVal
    /\ s.nodes # <<>>
    /\ TruthyOptStr(s.entry_node)


(***************************************************************************)
(* Notifications: App.notify(message, severity), default "information"     *)
(***************************************************************************)
Notice(severity, text) == [severity |-> severity, text |-> text]

NoNotice == Notice("none", "")

\* result of a handler: the ComposerState it leaves and what it notified
Out(s, n) == [state |-> s, notice |-> n]

(***************************************************************************)
(* modals.py: the values a modal hands to dismiss()                        *)
(***************************************************************************)
\* NodeEditorModal.on_button_pressed. Cancel dismisses None; Save with an
\* empty id or name is refused and the modal stays open; otherwise the node
\* is rebuilt with the tools of the node being edited. The id input is
\* disabled when the modal edits an existing node.
NodeEditorModal_results(node, ids, names) ==
    {NoneVal} \cup
    {Some(NodeData(i, n, node.tools)) :
        i \in {x \in (IF node.id # "" THEN {node.id} ELSE ids) : x # ""},
        n \in {x \in names : x # ""}}

\* GoalEditorModal.on_button_pressed
GoalEditorModal_results(names) ==
    {NoneVal} \cup {Some(GoalData(GoalIdOf(n), n)) : n \in {x \in names : x # ""}}

(***************************************************************************)
(* app.py: the handlers as functions of the ComposerState they read        *)
(***************************************************************************)
new_node_no_dup_check(s, node) ==
    LET nodes == Append(s.nodes, node) IN
    IF Len(nodes) = 1
    THEN Out([s EXCEPT !.nodes = nodes, !.entry_node = Some(node.id),
                       !.terminal_nodes = <<node.id>>],
             Notice("information", "Added node: {id}"))
    ELSE Out([s EXCEPT !.nodes = nodes],
             Notice("information", "Added node: {id}"))

new_node_always_entry(s, node) ==
    IF \E i \in 1..Len(s.nodes) : s.nodes[i].id = node.id
    THEN Out(s, Notice("error", "Node with ID '{id}' already exists!"))
    ELSE Out([s EXCEPT !.nodes = Append(s.nodes, node),
                       !.entry_node = Some(node.id),
                       !.terminal_nodes = <<node.id>>],
             Notice("information", "Added node: {id}"))

\* action_new_node.handle_result for a non-None result
new_node(s, node) ==
    IF \E i \in 1..Len(s.nodes) : s.nodes[i].id = node.id
    THEN Out(s, Notice("error", "Node with ID '{id}' already exists!"))
    ELSE LET nodes == Append(s.nodes, node) IN
         IF Len(nodes) = 1
         THEN Out([s EXCEPT !.nodes = nodes, !.entry_node = Some(node.id),
                            !.terminal_nodes = <<node.id>>],
                  Notice("information", "Added node: {id}"))
         ELSE Out([s EXCEPT !.nodes = nodes],
                  Notice("information", "Added node: {id}"))

\* next((n for n in nodes if n.id == id), None)
FirstWithId(nodes, id) ==
    LET hits == {i \in 1..Len(nodes) : nodes[i].id = id} IN
    IF hits = {} THEN NoneVal
    ELSE Some(nodes[CHOOSE i \in hits : \A j \in hits : i <= j])

\* list.index(node)
IndexOf(nodes, node) ==
    CHOOSE i \in 1..Len(nodes) :
        nodes[i] = node /\ \A j \in 1..(i - 1) : nodes[j] # node

edit_node_append(s, node, result) ==
    Out([s EXCEPT !.nodes =
            Append(SelectSeq(s.nodes, LAMBDA n : n # node), result)],
        Notice("information", "Updated node: {id}"))

\* action_edit_node.handle_result for a non-None result
edit_node(s, node, result) ==
    Out([s EXCEPT !.nodes[IndexOf(s.nodes, node)] = result],
        Notice("information", "Updated node: {id}"))

RECURSIVE NodesWithout(_, _)
\* [n for n in nodes if n.id != id]
NodesWithout(nodes, id) ==
    IF nodes = <<>> THEN <<>>
    ELSE IF Head(nodes).id # id
         THEN <<Head(nodes)>> \o NodesWithout(Tail(nodes), id)
         ELSE NodesWithout(Tail(nodes), id)

\* the edge filter of action_delete_node without its test of e.target
EdgesWithout_target_kept(edges, id) == SelectSeq(edges, LAMBDA e : e.source # id)

RECURSIVE EdgesWithout(_, _)
\* [e for e in edges if e.source != id and e.target != id]
EdgesWithout(edges, id) ==
    IF edges = <<>> THEN <<>>
    ELSE IF Head(edges).source # id /\ Head(edges).target # id
         THEN <<Head(edges)>> \o EdgesWithout(Tail(edges), id)
         ELSE EdgesWithout(Tail(edges), id)

delete_node_source_edges_only(s, id) ==
    Out([s EXCEPT !.nodes = NodesWithout(s.nodes, id),
                  !.edges = SelectSeq(s.edges, LAMBDA e : e.source # id)],
        Notice("information", "Deleted node: {id}"))

delete_node_clears_entry(s, id) ==
    Out([s EXCEPT !.nodes = NodesWithout(s.nodes, id),
                  !.edges = EdgesWithout(s.edges, id),
                  !.entry_node = IF s.entry_node = Some(id) THEN NoneVal
                                 ELSE s.entry_node],
        Notice("information", "Deleted node: {id}"))

\* action_delete_node with a selection
delete_node(s, id) ==
    Out([s EXCEPT !.nodes = NodesWithout(s.nodes, id),
                  !.edges = EdgesWithout(s.edges, id)],
        Notice("information", "Deleted node: {id}"))

generate_checks_no_goal(s) ==
    IF s.agent_name = "" THEN "Missing: Agent name"
    ELSE IF s.nodes = <<>> THEN "Missing: At least one node required"
    ELSE IF ~TruthyOptStr(s.entry_node) THEN "Missing: Entry node not set"
    ELSE ""

\* action_generate: the message of the first "Missing: ..." check that fails,
\* "" when all four pass
generate_checks(s) ==
    IF s.agent_name = "" THEN "Missing: Agent name"
    ELSE IF s.nodes = <<>> THEN "Missing: At least one node required"
    ELSE IF s.goal = NoneVal THEN "Missing: Agent goal (Press O to edit goal)"
    ELSE IF ~TruthyOptStr(s.entry_node) THEN "Missing: Entry node not set"
    ELSE ""

(***************************************************************************)
(* screens.py: the wizard handlers as functions of the ComposerState       *)
(***************************************************************************)
\* [t.strip() for t in tools_text.split(",") if t.strip()]
ParseTools(text) ==
    CASE text = "" -> <<>>
      [] text = " " -> <<>>
      [] text = "t" -> <<"t">>
      [] text = " t, " -> <<"t">>
      [] OTHER -> <<text>>

wizard_add_node_no_dup_check(s, raw_id, raw_name, tools_text) ==
    LET node_id == Strip(raw_id)
        node_name == Strip(raw_name)
    IN IF node_id = ""
       THEN Out(s, Notice("error", "Please enter a node ID"))
       ELSE LET node == NodeData(node_id,
                                 IF node_name # "" THEN node_name ELSE Title(node_id),
                                 ParseTools(tools_text))
                nodes == Append(s.nodes, node)
            IN IF Len(nodes) = 1
               THEN Out([s EXCEPT !.nodes = nodes, !.entry_node = Some(node_id)],
                        Notice("information", "Added node: {id}"))
               ELSE Out([s EXCEPT !.nodes = nodes],
                        Notice("information", "Added node: {id}"))

\* the wizard's add-node setting entry_node at every add
wizard_add_node_always_entry(s, raw_id, raw_name, tools_text) ==
    LET node_id == Strip(raw_id)
        node_name == Strip(raw_name)
    IN IF node_id = ""
       THEN Out(s, Notice("error", "Please enter a node ID"))
       ELSE IF \E i \in 1..Len(s.nodes) : s.nodes[i].id = node_id
       THEN Out(s, Notice("error", "Node '{id}' already exists"))
       ELSE LET node == NodeData(node_id,
                                 IF node_name # "" THEN node_name ELSE Title(node_id),
                                 ParseTools(tools_text))
            IN Out([s EXCEPT !.nodes = Append(s.nodes, node),
                             !.entry_node = Some(node_id)],
                   Notice("information", "Added node: {id}"))

\* NodeEditorScreen.on_button_pressed, button "add-node"
wizard_add_node(s, raw_id, raw_name, tools_text) ==
    LET node_id == Strip(raw_id)
        node_name == Strip(raw_name)
    IN IF node_id = ""
       THEN Out(s, Notice("error", "Please enter a node ID"))
       ELSE IF \E i \in 1..Len(s.nodes) : s.nodes[i].id = node_id
       THEN Out(s, Notice("error", "Node '{id}' already exists"))
       ELSE LET node == NodeData(node_id,
                                 IF node_name # "" THEN node_name ELSE Title(node_id),
                                 ParseTools(tools_text))
                nodes == Append(s.nodes, node)
            IN IF Len(nodes) = 1
               THEN Out([s EXCEPT !.nodes = nodes, !.entry_node = Some(node_id)],
                        Notice("information", "Added node: {id}"))
               ELSE Out([s EXCEPT !.nodes = nodes],
                        Notice("information", "Added node: {id}"))

wizard_add_edge_no_target_check(s, raw_source, raw_target) ==
    LET source == Strip(raw_source)
        target == Strip(raw_target)
    IN IF source = "" \/ target = ""
       THEN Out(s, Notice("error", "Please enter both source and target"))
       ELSE IF source \notin IdsOf(s.nodes)
       THEN Out(s, Notice("error", "Source node '{source}' not found"))
       ELSE Out([s EXCEPT !.edges = Append(s.edges, EdgeData(source, target))],
                Notice("information", "Added edge: {source} -> {target}"))

\* EdgeWiringScreen.on_button_pressed, button "add-edge"
wizard_add_edge(s, raw_source, raw_target) ==
    LET source == Strip(raw_source)
        target == Strip(raw_target)
        node_ids == IdsOf(s.nodes)
    IN IF source = "" \/ target = ""
       THEN Out(s, Notice("error", "Please enter both source and target"))
       ELSE IF source \notin node_ids
       THEN Out(s, Notice("error", "Source node '{source}' not found"))
       ELSE IF target \notin node_ids
       THEN Out(s, Notice("error", "Target node '{target}' not found"))
       ELSE Out([s EXCEPT !.edges = Append(s.edges, EdgeData(source, target))],
                Notice("information", "Added edge: {source} -> {target}"))

(***************************************************************************)
(* generator.py                                                            *)
(***************************************************************************)
\* what generate() finds set in the state it is handed: agent name, goal,
\* at least one node, entry node
Facts(s) ==
    <<s.agent_name # "", s.goal # NoneVal, Len(s.nodes) > 0, s.entry_node # NoneVal>>

Artifacts_always_manifest(s) ==
    <<"__init__.py", "__main__.py", "agent.py", "config.py", "nodes/__init__.py",
      "mcp_servers.json">>

Artifacts_without_config(s) ==
    <<"__init__.py", "__main__.py", "agent.py", "nodes/__init__.py">>
    \o (IF s.selected_tools # <<>> THEN <<"mcp_servers.json">> ELSE <<>>)

\* the files generate() writes, in the order it writes them
Artifacts(s) ==
    <<"__init__.py", "__main__.py", "agent.py", "config.py", "nodes/__init__.py">>
    \o (IF s.selected_tools # <<>> THEN <<"mcp_servers.json">> ELSE <<>>)

\* the filesystem steps of generate(): two mkdir(exist_ok=True), then the writes
GenerateSteps(s) == <<".", "nodes">> \o Artifacts(s)

\* Path.mkdir(..., exist_ok=True) on the paths `d`: a path that is already
\* there is not an error
mkdir_raises_if_exists(d, path) == path \in d

mkdir_raises(d, path) == FALSE

\* the first mkdir of generate() that raises on the paths `d`, 0 if none does
FirstMkdirRaising(d) ==
    IF mkdir_raises(d, ".") THEN 1
    ELSE IF mkdir_raises(d \cup {"."}, "nodes") THEN 2
    ELSE 0

generate_rollback(s, d, fail_at) ==
    LET steps == GenerateSteps(s)
    IN [disk |-> IF fail_at = 0 THEN d \cup {steps[i] : i \in 1..Len(steps)} ELSE d,
        written |-> IF fail_at = 0 THEN SubSeq(steps, 3, Len(steps)) ELSE <<>>,
        ok |-> fail_at = 0]

\* CodeGenerator.generate(state, output_path) on the paths `d` already present.
\* fail_at = 0: no step fails for an outside reason; fail_at = k: step k
\* raises (template lookup or filesystem error). The call stops at the first
\* step that raises; the steps before it have been done and stay done.
\* write_text overwrites a file that is already there.
generate(s, d, fail_at) ==
    LET steps == GenerateSteps(s)
        m     == FirstMkdirRaising(d)
        stop  == IF m # 0 /\ (fail_at = 0 \/ m < fail_at) THEN m ELSE fail_at
        done  == IF stop = 0 THEN Len(steps) ELSE stop - 1
    IN [disk |-> d \cup {steps[i] : i \in 1..done},
        written |-> SubSeq(steps, 3, done),
        ok |-> stop = 0]

FailPoints(s) == 0..Len(GenerateSteps(s))


(***************************************************************************)
(* jira_tool.py: values                                                    *)
(***************************************************************************)
\* a value read with dict.get(): the key is absent, or present with null, or
\* present with an object that has the name asked for
Absent == [present |-> FALSE, value |-> NoneVal]
Null == [present |-> TRUE, value |-> NoneVal]
Obj(name) == [present |-> TRUE, value |-> Some(name)]

\* the parsed body of a response, as far as the tool reads it. kind is
\* "object" or "array" for a JSON body and "none" for a body that is not JSON
Body(kind, errorMessages, issues, transitions, attachments, text) ==
    [kind |-> kind, errorMessages |-> errorMessages, issues |-> issues,
     transitions |-> transitions, attachments |-> attachments, text |-> text]

\* the mapping {} that stands in for a body that is not JSON
EmptyMapping == Body("object", <<>>, <<>>, <<>>, <<>>, "")

\* httpx.Response
Response(status_code, url, body) ==
    [status_code |-> status_code, url |-> url, body |-> body]

\* an exception: its class and str(e)
Exc(class, message) == [class |-> class, message |-> message]

\* the classes of httpx the tools catch, and the classes each one is caught as
Ancestors(class) ==
    CASE class = "ReadTimeout" -> {"ReadTimeout", "TimeoutException", "RequestError"}
      [] class = "TimeoutException" -> {"TimeoutException", "RequestError"}
      [] class = "ConnectError" -> {"ConnectError", "RequestError"}
      [] class = "RequestError" -> {"RequestError"}
      [] OTHER -> {class}

isinstance(e, class) == class \in Ancestors(e.class)

\* an HTTP request as the tool sends it
Request(method, url) ==
    [method |-> method, url |-> url, maxResults |-> NoneVal,
     transition_id |-> NoneVal, fields |-> {}]

\* the dict a tool returns: every key it may hold, <<>> for a key not in it
EmptyDict ==
    [error |-> NoneVal, help |-> NoneVal, success |-> NoneVal, data |-> NoneVal,
     issue_key |-> NoneVal, available_transitions |-> NoneVal, count |-> NoneVal,
     issues |-> NoneVal, original_data |-> NoneVal, attachments |-> NoneVal]

ErrorDict(message) == [EmptyDict EXCEPT !.error = Some(message)]

\* what a call has done: the requests it sent, and the exception it raised
\* or the value it returned; httpx_error keeps the exception httpx raised in
\* the call, if one did
Returned(sent, value) ==
    [sent |-> sent, raised |-> NoneVal, value |-> value, httpx_error |-> NoneVal]

Raised(sent, e) ==
    [sent |-> sent, raised |-> Some(e), value |-> EmptyDict, httpx_error |-> NoneVal]

RECURSIVE Join(_, _)
\* sep.join(strings)
Join(sep, strings) ==
    IF strings = <<>> THEN ""
    ELSE IF Len(strings) = 1 THEN strings[1]
    ELSE strings[1] \o sep \o Join(sep, Tail(strings))

\* base_url.rstrip("/")
RstripSlash(s) ==
    CASE s = "https://j/" -> "https://j"
      [] s = "/" -> ""
      [] OTHER -> s

\* str.lower()
Lower(s) ==
    CASE s = "Done" -> "done"
      [] s = "DONE" -> "done"
      [] s = "In Progress" -> "in progress"
      [] OTHER -> s

\* min(a, b)
Min(a, b) == IF a <= b THEN a ELSE b

(***************************************************************************)
(* jira_tool.py: _JiraClient                                               *)
(***************************************************************************)
\* _JiraClient.__init__
JiraClient(base_url, email, api_token) ==
    [base_url |-> RstripSlash(base_url), email |-> email, api_token |-> api_token]

handle_response_429_generic(response) ==
    LET status == response.status_code
        body == response.body
        detail == IF body.kind = "object" /\ body.errorMessages # <<>>
                  THEN Join("; ", body.errorMessages)
                  ELSE body.text
    IN IF status = 401
       THEN ErrorDict("Invalid Jira credentials. Check JIRA_EMAIL and JIRA_API_TOKEN.")
       ELSE IF status = 403
       THEN ErrorDict("Forbidden - check permissions or API token scopes.")
       ELSE IF status = 404
       THEN ErrorDict("Resource not found. Check issue key or project key.")
       ELSE IF status >= 400
       THEN ErrorDict("Jira API error (HTTP " \o ToString(status) \o ") at "
                      \o response.url \o ": " \o detail)
       ELSE [EmptyDict EXCEPT !.success = Some(TRUE),
                              !.data = Some(IF body.kind = "none" THEN EmptyMapping
                                            ELSE body)]

\* _JiraClient._handle_response. response.json() raises on a body that is
\* not JSON; .get on a body that is a JSON array raises too; both are caught.
handle_response(response) ==
    LET status == response.status_code
        body == response.body
        detail == IF body.kind = "object" /\ body.errorMessages # <<>>
                  THEN Join("; ", body.errorMessages)
                  ELSE body.text
    IN IF status = 401
       THEN ErrorDict("Invalid Jira credentials. Check JIRA_EMAIL and JIRA_API_TOKEN.")
       ELSE IF status = 403
       THEN ErrorDict("Forbidden - check permissions or API token scopes.")
       ELSE IF status = 404
       THEN ErrorDict("Resource not found. Check issue key or project key.")
       ELSE IF status = 429
       THEN ErrorDict("Rate limit exceeded. Try again later.")
       ELSE IF status >= 400
       THEN ErrorDict("Jira API error (HTTP " \o ToString(status) \o ") at "
                      \o response.url \o ": " \o detail)
       ELSE [EmptyDict EXCEPT !.success = Some(TRUE),
                              !.data = Some(IF body.kind = "none" THEN EmptyMapping
                                            ELSE body)]

\* httpx.get / httpx.post / httpx.put. outcome is what the network does with
\* the request: an exception raised by httpx, or a response.
Http(request, outcome) ==
    [sent |-> <<request>>, exception |-> outcome.exception,
     response |-> Response(outcome.status_code, request.url, outcome.body)]

\* the end of a method that sent one request: the exception of httpx leaves
\* the method, else the method returns `value`, made from the response
Answered(h, value) ==
    IF h.exception # NoneVal
    THEN [Raised(h.sent, h.exception[1]) EXCEPT !.httpx_error = h.exception]
    ELSE Returned(h.sent, value)

\* return self._handle_response(response)
Handled(h) == Answered(h, handle_response(h.response))

\* the methods that send one request and hand the response to _handle_response;
\* of the JSON they send, the model keeps maxResults, the transition id and the
\* names of the fields
create_issue(client, outcome) ==
    Handled(Http(Request("POST", client.base_url \o "/rest/api/3/issue"), outcome))

get_issue(client, issue_key, fields, outcome) ==
    Handled(Http([Request("GET", client.base_url \o "/rest/api/3/issue/" \o issue_key)
             EXCEPT !.fields = IF fields # NoneVal THEN Range(fields[1]) ELSE {}], outcome))

get_transitions(client, issue_key, outcome) ==
    Handled(Http(Request("GET", client.base_url \o "/rest/api/3/issue/" \o issue_key
                        \o "/transitions"), outcome))

get_myself(client, outcome) ==
    Handled(Http(Request("GET", client.base_url \o "/rest/api/3/myself"), outcome))

add_worklog(client, issue_key, outcome) ==
    Handled(Http(Request("POST", client.base_url \o "/rest/api/3/issue/" \o issue_key
                         \o "/worklog"), outcome))

list_worklogs(client, issue_key, outcome) ==
    Handled(Http(Request("GET", client.base_url \o "/rest/api/3/issue/" \o issue_key
                        \o "/worklog"), outcome))

find_user(client, max_results, outcome) ==
    Handled(Http([Request("GET", client.base_url \o "/rest/api/3/user/search")
             EXCEPT !.maxResults = Some(Min(max_results, 50))], outcome))

list_projects(client, max_results, outcome) ==
    Handled(Http([Request("GET", client.base_url \o "/rest/api/3/project/search")
             EXCEPT !.maxResults = Some(Min(max_results, 100))], outcome))

\* Response handling of update_issue and transition_issue: Jira answers 204
\* No Content on success
no_content_or_handle_response(issue_key, response) ==
    IF response.status_code = 204
    THEN [EmptyDict EXCEPT !.success = Some(TRUE), !.issue_key = Some(issue_key)]
    ELSE handle_response(response)

\* update_issue with `if labels:` in place of `if labels is not None:`
update_fields_labels_truthy(summary, description, assignee_account_id, priority, labels) ==
    (IF TruthyOptStr(summary) THEN {"summary"} ELSE {})
    \cup (IF TruthyOptStr(description) THEN {"description"} ELSE {})
    \cup (IF TruthyOptStr(assignee_account_id) THEN {"assignee"} ELSE {})
    \cup (IF TruthyOptStr(priority) THEN {"priority"} ELSE {})
    \cup (IF labels # NoneVal /\ labels # Some(<<>>) THEN {"labels"} ELSE {})

\* _JiraClient.update_issue: the names of the fields it would send
update_fields(summary, description, assignee_account_id, priority, labels) ==
    (IF TruthyOptStr(summary) THEN {"summary"} ELSE {})
    \cup (IF TruthyOptStr(description) THEN {"description"} ELSE {})
    \cup (IF TruthyOptStr(assignee_account_id) THEN {"assignee"} ELSE {})
    \cup (IF TruthyOptStr(priority) THEN {"priority"} ELSE {})
    \cup (IF labels # NoneVal THEN {"labels"} ELSE {})

\* _JiraClient.update_issue
update_issue(client, issue_key, summary, description, assignee_account_id, priority, labels, outcome) ==
    LET fields == update_fields(summary, description, assignee_account_id,
                                priority, labels)
    IN IF fields = {}
       THEN Returned(<<>>, ErrorDict("No fields to update"))
       ELSE LET h == Http([Request("PUT", client.base_url \o "/rest/api/3/issue/"
                                          \o issue_key)
                              EXCEPT !.fields = fields], outcome)
            IN Answered(h, no_content_or_handle_response(issue_key, h.response))

\* _JiraClient.transition_issue
transition_issue(client, issue_key, transition_id, outcome) ==
    LET h == Http([Request("POST", client.base_url \o "/rest/api/3/issue/" \o issue_key
                          \o "/transitions")
             EXCEPT !.transition_id = transition_id], outcome)
    IN Answered(h, no_content_or_handle_response(issue_key, h.response))

\* x.get(key, {}).get(name, default): default when the key is absent, the
\* name when it holds an object; on null the second .get raises
NestedGet(field, default) ==
    IF field.present THEN field.value ELSE default

\* an issue of a search response, as search_issues reads it
Issue(key, id, summary, status, assignee) ==
    [key |-> key, id |-> id, summary |-> summary, status |-> status,
     assignee |-> assignee]

\* the entry search_issues builds of an issue
simplified(issue) ==
    [key |-> IF TruthyOptStr(issue.key) THEN issue.key ELSE issue.id,
     id |-> issue.id,
     summary |-> IF issue.summary = NoneVal THEN Some("No Summary") ELSE issue.summary,
     status |-> NestedGet(issue.status, Some("Unknown")),
     assignee |-> NestedGet(issue.assignee, Some("Unassigned"))]

\* _JiraClient.search_issues
search_issues(client, jql, fields, max_results, outcome) ==
    LET sent_fields == IF fields = NoneVal
                       THEN {"key", "summary", "status", "assignee"}
                       ELSE Range(fields[1])
        request == [Request("POST", client.base_url \o "/rest/api/3/search/jql")
                       EXCEPT !.maxResults = Some(Min(max_results, 100)),
                              !.fields = sent_fields]
        r == Handled(Http(request, outcome))
    IN IF r.raised # NoneVal \/ r.value.error # NoneVal
       THEN r
       ELSE LET data == r.value.data[1]
                issues == data.issues
            IN IF data.kind = "array"
               THEN Raised(r.sent, Exc("AttributeError", "'list' object has no attribute 'get'"))
               ELSE IF \E i \in 1..Len(issues) :
                          issues[i].status = Null \/ issues[i].assignee = Null
               THEN Raised(r.sent, Exc("AttributeError", "'NoneType' object has no attribute 'get'"))
               ELSE Returned(r.sent,
                       [EmptyDict EXCEPT
                           !.success = Some(TRUE),
                           !.count = Some(Len(issues)),
                           !.issues = Some([i \in 1..Len(issues) |-> simplified(issues[i])]),
                           !.original_data = Some(data)])

\* base64.b64decode(content_base64): the message of the error it raises, or ""
b64decode_error(content_base64) ==
    CASE content_base64 = "aGk=" -> ""
      [] content_base64 = "" -> ""
      [] OTHER -> "Incorrect padding"

\* _JiraClient.add_attachment
add_attachment(client, issue_key, filename, content_base64, outcome) ==
    IF b64decode_error(content_base64) # ""
    THEN Returned(<<>>, ErrorDict("Invalid base64 content: "
                                  \o b64decode_error(content_base64)))
    ELSE Handled(Http(Request("POST", client.base_url \o "/rest/api/3/issue/" \o issue_key
                              \o "/attachments"), outcome))

\* an attachment of an issue, as list_attachments reads it
Attachment(id, filename, author) ==
    [id |-> id, filename |-> filename, author |-> author]

\* _JiraClient.list_attachments
list_attachments(client, issue_key, outcome) ==
    LET r == get_issue(client, issue_key, Some(<<"attachment">>), outcome)
    IN IF r.raised # NoneVal \/ r.value.error # NoneVal
       THEN r
       ELSE LET data == r.value.data[1]
                atts == data.attachments
            IN IF data.kind = "array"
               THEN Raised(r.sent, Exc("AttributeError", "'list' object has no attribute 'get'"))
               ELSE IF \E i \in 1..Len(atts) : atts[i].author = Null
               THEN Raised(r.sent, Exc("AttributeError", "'NoneType' object has no attribute 'get'"))
               ELSE Returned(r.sent,
                       [EmptyDict EXCEPT
                           !.success = Some(TRUE),
                           !.issue_key = Some(issue_key),
                           !.attachments =
                               Some([i \in 1..Len(atts) |->
                                       [id |-> atts[i].id, filename |-> atts[i].filename,
                                        author |-> NestedGet(atts[i].author, NoneVal)]])])

(***************************************************************************)
(* jira_tool.py: register_tools                                            *)
(***************************************************************************)
\* the Jira settings of a credential store or of the environment
JiraSettings(base_url, email, api_token, pat) ==
    [jira_base_url |-> base_url, jira_email |-> email,
     jira_api_token |-> api_token, jira_pat |-> pat]

\* a or b
Or(a, b) == IF TruthyOptStr(a) THEN a ELSE b

\* _get_config: the credential store when one was given, else the environment
get_config(config) ==
    LET settings == IF config.credentials # NoneVal THEN config.credentials[1]
                    ELSE config.env
    IN <<settings.jira_base_url, settings.jira_email,
         Or(settings.jira_api_token, settings.jira_pat)>>

get_client_token_first(config) ==
    LET c == get_config(config) IN
    IF ~TruthyOptStr(c[3])
    THEN [error |-> Some([ErrorDict("Jira credentials not configured") EXCEPT
                            !.help = Some("Set JIRA_EMAIL + JIRA_API_TOKEN (Cloud) or JIRA_PAT (Server)")]),
          client |-> NoneVal]
    ELSE IF ~TruthyOptStr(c[1])
    THEN [error |-> Some([ErrorDict("Jira not configured") EXCEPT
                            !.help = Some("Set JIRA_BASE_URL (e.g., https://yourcompany.atlassian.net)")]),
          client |-> NoneVal]
    ELSE [error |-> NoneVal, client |-> Some(JiraClient(c[1][1], c[2], c[3][1]))]

\* _get_client: an error dict, or a client
get_client(config) ==
    LET c == get_config(config) IN
    IF ~TruthyOptStr(c[1])
    THEN [error |-> Some([ErrorDict("Jira not configured") EXCEPT
                            !.help = Some("Set JIRA_BASE_URL (e.g., https://yourcompany.atlassian.net)")]),
          client |-> NoneVal]
    ELSE IF ~TruthyOptStr(c[3])
    THEN [error |-> Some([ErrorDict("Jira credentials not configured") EXCEPT
                            !.help = Some("Set JIRA_EMAIL + JIRA_API_TOKEN (Cloud) or JIRA_PAT (Server)")]),
          client |-> NoneVal]
    ELSE [error |-> NoneVal, client |-> Some(JiraClient(c[1][1], c[2], c[3][1]))]

except_request_error_first(r) ==
    IF r.raised = NoneVal THEN r
    ELSE IF isinstance(r.raised[1], "RequestError")
    THEN [Returned(r.sent, ErrorDict("Network error: " \o r.raised[1].message))
             EXCEPT !.httpx_error = r.httpx_error]
    ELSE IF isinstance(r.raised[1], "TimeoutException")
    THEN [Returned(r.sent, ErrorDict("Request timed out"))
             EXCEPT !.httpx_error = r.httpx_error]
    ELSE r

\* the except clauses every tool puts around its client call, in their order:
\* httpx.TimeoutException, then httpx.RequestError; anything else propagates
except_clauses(r) ==
    IF r.raised = NoneVal THEN r
    ELSE IF isinstance(r.raised[1], "TimeoutException")
    THEN [Returned(r.sent, ErrorDict("Request timed out"))
             EXCEPT !.httpx_error = r.httpx_error]
    ELSE IF isinstance(r.raised[1], "RequestError")
    THEN [Returned(r.sent, ErrorDict("Network error: " \o r.raised[1].message))
             EXCEPT !.httpx_error = r.httpx_error]
    ELSE r

\* the client _get_client() returns when the tool is configured
client_of(config) == get_client(config).client[1]

\* the frame of every tool: _get_client(), the error dict returned as it is,
\* else the client call `called`, made on client_of(config), inside
\* try / except
tool(config, called) ==
    LET c == get_client(config) IN
    IF c.error # NoneVal THEN Returned(<<>>, c.error[1])
    ELSE except_clauses(called)

\* the try block of jira_transition_issue, entered with a name or an id
transition_try(client, issue_key, transition_name, transition_id, outcomes) ==
    IF TruthyOptStr(transition_name) /\ ~TruthyOptStr(transition_id)
    THEN LET r == get_transitions(client, issue_key, outcomes[1]) IN
         IF r.raised # NoneVal \/ r.value.error # NoneVal
         THEN r
         ELSE LET data == r.value.data[1]
                  ts == data.transitions
                  matches == {i \in 1..Len(ts) :
                                 Lower(ts[i].name) = Lower(transition_name[1])}
                  found == IF matches = {} THEN NoneVal
                           ELSE ts[CHOOSE i \in matches : \A j \in matches : i <= j].id
              IN IF data.kind = "array"
                 THEN Raised(r.sent, Exc("AttributeError", "'list' object has no attribute 'get'"))
                 ELSE IF ~TruthyOptStr(found)
                 THEN Returned(r.sent,
                         [ErrorDict("Transition '" \o transition_name[1] \o "' not found")
                             EXCEPT !.available_transitions =
                                       Some([i \in 1..Len(ts) |-> ts[i].name])])
                 ELSE LET p == transition_issue(client, issue_key, found, outcomes[2])
                      IN [p EXCEPT !.sent = r.sent \o p.sent]
    ELSE transition_issue(client, issue_key, transition_id, outcomes[2])

\* jira_transition_issue without its check that a name or an id was given
transition_tool_no_param_check(config, issue_key, transition_name, transition_id, outcomes) ==
    LET c == get_client(config) IN
    IF c.error # NoneVal THEN Returned(<<>>, c.error[1])
    ELSE except_clauses(transition_try(c.client[1], issue_key, transition_name,
                                       transition_id, outcomes))

\* jira_transition_issue
transition_tool(config, issue_key, transition_name, transition_id, outcomes) ==
    LET c == get_client(config) IN
    IF c.error # NoneVal THEN Returned(<<>>, c.error[1])
    ELSE IF ~TruthyOptStr(transition_name) /\ ~TruthyOptStr(transition_id)
    THEN Returned(<<>>, ErrorDict("Provide transition_name or transition_id"))
    ELSE except_clauses(transition_try(c.client[1], issue_key, transition_name,
                                       transition_id, outcomes))

(***************************************************************************)
(* cli_wrapper.py: should_compose                                          *)
(***************************************************************************)
\* should_compose with the required files left unchecked
should_compose_directory_only(d) == "." \notin d

\* should_compose(agent_path) on the paths `d` present under agent_path
should_compose(d) ==
    IF "." \notin d THEN TRUE
    ELSE IF "agent.py" \notin d THEN TRUE
    ELSE IF "config.py" \notin d THEN TRUE
    ELSE IF "nodes/__init__.py" \notin d THEN TRUE
    ELSE FALSE

\* the tool server: the configuration the tools were registered with, and the
\* last tool call: its name, the requests it sent, what it raised or returned
NoSettings == JiraSettings(NoneVal, NoneVal, NoneVal, NoneVal)

JiraIdle ==
    [pc |-> "idle", config |-> [credentials |-> NoneVal, env |-> NoSettings],
     tool |-> "", response |-> NoneVal, sent |-> <<>>, raised |-> NoneVal,
     result |-> EmptyDict, httpx_error |-> NoneVal]

(***************************************************************************)
(* jira_tool.py: the tools as actions of the tool server                   *)
(***************************************************************************)
\* a tool is called and runs to its end
ToolCall(name, r) ==
    /\ jira.pc = "idle"
    /\ jira' = [jira EXCEPT !.pc = "returned", !.tool = name, !.sent = r.sent,
                            !.raised = r.raised, !.result = r.value,
                            !.httpx_error = r.httpx_error]
    /\ UNCHANGED <<state, selected_node, notice, screen, app, disk, written,
                   generated, rendered, proc, wrapper, ret, memory>>

\* the server has handed the result, or the exception, to the caller
tool_result_delivered ==
    /\ jira.pc = "returned"
    /\ jira' = [JiraIdle EXCEPT !.config = jira.config]
    /\ UNCHANGED <<state, selected_node, notice, screen, app, disk, written,
                   generated, rendered, proc, wrapper, ret, memory>>

jira_create_issue(outcome) ==
    ToolCall("jira_create_issue",
             tool(jira.config, create_issue(client_of(jira.config), outcome)))

jira_get_issue(issue_key, fields, outcome) ==
    ToolCall("jira_get_issue",
             tool(jira.config,
                  get_issue(client_of(jira.config), issue_key, fields, outcome)))

jira_update_issue(issue_key, summary, description, assignee_account_id, priority, labels, outcome) ==
    ToolCall("jira_update_issue",
             tool(jira.config,
                  update_issue(client_of(jira.config), issue_key, summary,
                               description, assignee_account_id, priority, labels,
                               outcome)))

jira_search_issues(jql, fields, max_results, outcome) ==
    ToolCall("jira_search_issues",
             tool(jira.config,
                  search_issues(client_of(jira.config), jql, fields, max_results,
                                                outcome)))

jira_transition_issue(issue_key, transition_name, transition_id, outcomes) ==
    ToolCall("jira_transition_issue",
             transition_tool(jira.config, issue_key, transition_name, transition_id,
                             outcomes))

jira_add_attachment(issue_key, filename, content_base64, outcome) ==
    ToolCall("jira_add_attachment",
             tool(jira.config,
                  add_attachment(client_of(jira.config), issue_key, filename,
                                                 content_base64, outcome)))

jira_list_attachments(issue_key, outcome) ==
    ToolCall("jira_list_attachments",
             tool(jira.config,
                  list_attachments(client_of(jira.config), issue_key, outcome)))

jira_find_user(max_results, outcome) ==
    ToolCall("jira_find_user",
             tool(jira.config, find_user(client_of(jira.config), max_results, outcome)))

jira_get_myself(outcome) ==
    ToolCall("jira_get_myself",
             tool(jira.config, get_myself(client_of(jira.config), outcome)))

jira_add_worklog(issue_key, outcome) ==
    ToolCall("jira_add_worklog",
             tool(jira.config, add_worklog(client_of(jira.config), issue_key, outcome)))

jira_list_worklogs(issue_key, outcome) ==
    ToolCall("jira_list_worklogs",
             tool(jira.config, list_worklogs(client_of(jira.config), issue_key, outcome)))

jira_list_projects(max_results, outcome) ==
    ToolCall("jira_list_projects",
             tool(jira.config,
                  list_projects(client_of(jira.config), max_results, outcome)))

\* _JiraClient._handle_response called on a response
handle_response_call(response) ==
    /\ jira' = [jira EXCEPT !.pc = "returned", !.tool = "_handle_response",
                            !.response = Some(response),
                            !.result = handle_response(response)]
    /\ UNCHANGED <<state, selected_node, notice, screen, app, disk, written,
                   generated, rendered, proc, wrapper, ret, memory>>


(***************************************************************************)
(* State of the session                                                    *)
(***************************************************************************)
AppRunning == [exited |-> FALSE, return_value |-> NoneVal, return_code |-> 0,
               focused_input |-> FALSE]

WrapperWaiting == [pc |-> "composer", composer_rc |-> NoneVal,
                   runtime_rc |-> NoneVal, result |-> NoneVal]

(***************************************************************************)
(* memory_manager.py: MemoryManager state API and JSONMemoryDriver         *)
(***************************************************************************)
\* a Python value by its type and its text
PyValue(type, text) == [type |-> type, text |-> text]

\* json.load(json.dump(value, default=str)): a tuple comes back as a list,
\* and a value JSON has no form for comes back as the string str() gives
json_dump_load(value) ==
    CASE value.type = "tuple" -> PyValue("list", value.text)
      [] value.type = "datetime" -> PyValue("str", value.text)
      [] OTHER -> value

\* datetime.now().isoformat() at second t
isoformat(t) == PyValue("str", "2026-01-01T00:00:0" \o ToString(t))

\* datetime.now().strftime('%Y%m%d_%H%M%S') at second t
strftime(t) == "20260101_00000" \o ToString(t)

\* the keys a state dict of the model may hold
StateKeys == {"step", "contact_id", "_updated_at"}

\* a state dict: <<>> at a key it does not hold
EmptyState == [k \in StateKeys |-> NoneVal]

\* MemoryManager._load_state
load_state(state_file) == IF state_file = NoneVal THEN EmptyState ELSE state_file[1]

\* MemoryManager._save_state: what json.dump leaves in agent_state.json
save_state(dict) ==
    Some([k \in StateKeys |->
             IF dict[k] = NoneVal THEN NoneVal ELSE Some(json_dump_load(dict[k][1]))])

\* the last call made on the memory: its name, its arguments, what it returned
MemoryCall(op, key, value, returned) ==
    [op |-> op, key |-> key, value |-> value, returned |-> returned]

\* MemoryManager() on a data directory without agent_state.json and
\* memory.json
MemoryFresh ==
    [state_file |-> NoneVal,
     data |-> [entries |-> <<>>, embeddings |-> <<>>],
     now |-> 0,
     call |-> MemoryCall("", NoneVal, NoneVal, NoneVal)]

\* every action of the memory leaves the composer and the Jira server alone
MemoryOnly ==
    UNCHANGED <<state, selected_node, notice, screen, app, disk, written,
                generated, rendered, proc, wrapper, ret, jira>>

\* MemoryManager.update_state
update_state(key, value) ==
    LET loaded == load_state(memory.state_file)
        set == [loaded EXCEPT ![key] = Some(value)]
        stamped == [set EXCEPT !["_updated_at"] = Some(isoformat(memory.now))]
    IN /\ memory' = [memory EXCEPT
                        !.state_file = save_state(stamped),
                        !.call = MemoryCall("update_state", Some(key), Some(value),
                                            NoneVal)]
       /\ MemoryOnly

\* MemoryManager.get_state
get_state(key) ==
    LET loaded == load_state(memory.state_file) IN
    /\ memory' = [memory EXCEPT
                     !.call = MemoryCall("get_state", key, NoneVal,
                                         IF key = NoneVal THEN Some(loaded)
                                         ELSE loaded[key[1]])]
    /\ MemoryOnly

\* MemoryManager.clear_state
clear_state ==
    /\ memory' = [memory EXCEPT
                     !.state_file = save_state(EmptyState),
                     !.call = MemoryCall("clear_state", NoneVal, NoneVal, NoneVal)]
    /\ MemoryOnly

\* the id JSONMemoryDriver.add gives an entry added at second t to n entries
entry_id(t, n) == "mem_" \o strftime(t) \o "_" \o ToString(n)

\* JSONMemoryDriver.add
add(text) ==
    LET id == entry_id(memory.now, Len(memory.data.entries)) IN
    /\ Len(memory.data.entries) < MaxEntries
    /\ memory' = [memory EXCEPT
                     !.data.entries = Append(@, [id |-> id, text |-> text,
                                                 created_at |-> isoformat(memory.now)]),
                     !.data.embeddings = Append(@, [embedding_of |-> text]),
                     !.call = MemoryCall("add", NoneVal, Some(text), Some(id))]
    /\ MemoryOnly

\* s without its element at index i: list.pop(i)
Pop(s, i) == SubSeq(s, 1, i - 1) \o SubSeq(s, i + 1, Len(s))

\* JSONMemoryDriver.delete
delete(id) ==
    LET entries == memory.data.entries
        found == {i \in 1..Len(entries) : entries[i].id = id}
        first == CHOOSE i \in found : \A j \in found : i <= j
    IN /\ memory' =
            IF found = {}
            THEN [memory EXCEPT !.call = MemoryCall("delete", Some(id), NoneVal, Some(FALSE))]
            ELSE [memory EXCEPT
                    !.data.entries = Pop(@, first),
                    !.data.embeddings = Pop(@, first),
                    !.call = MemoryCall("delete", Some(id), NoneVal, Some(TRUE))]
       /\ MemoryOnly

\* the wall clock reaches the next second
second_passes ==
    /\ memory.now < MaxSeconds
    /\ memory' = [memory EXCEPT !.now = @ + 1]
    /\ MemoryOnly

\* textual App.exit(result, return_code): the app stops handling events
Exit(result, return_code) ==
    app' = [app EXCEPT !.exited = TRUE, !.return_value = result,
                       !.return_code = return_code, !.focused_input = FALSE]

\* the app is handling events
Running == ~app.exited /\ proc = NoneVal

\* the main screen is on top: the bindings and the wizard screens are reachable
Live == Running /\ screen = "main"

Apply(out) == state' = out.state /\ notice' = out.notice

\* Session launched through run_composer_then_runtime: ComposerApp.__init__
\* and on_mount have run, the agent name is empty, AgentInfoModal is shown.
Init ==
    /\ state = ComposerState
    /\ selected_node = NoneVal
    /\ notice = NoNotice
    /\ screen = "agent_info"
    /\ app = AppRunning
    /\ disk = {}
    /\ written = <<>>
    /\ generated = FALSE
    /\ rendered = {}
    /\ proc = NoneVal
    /\ wrapper = WrapperWaiting
    /\ ret = NoneVal
    /\ jira = JiraIdle
    /\ memory = MemoryFresh

(***************************************************************************)
(* app.py and modals.py: actions                                           *)
(***************************************************************************)
\* on_input_changed for the Input "agent-name" of AgentInfoModal: the state
\* mirrors the value of that Input
on_input_changed(value) ==
    /\ Running /\ screen = "agent_info"
    /\ state' = [state EXCEPT !.agent_name = value]
    /\ app' = [app EXCEPT !.focused_input = TRUE]
    /\ UNCHANGED <<selected_node, notice, screen, disk, written, generated, rendered,
                   proc, wrapper, ret, jira, memory>>

\* AgentInfoModal.on_button_pressed followed by show_agent_info_modal.check_result
show_agent_info_modal(button) ==
    /\ Running /\ screen = "agent_info"
    /\ IF button = "create"
       THEN LET name == state.agent_name IN
            IF name = ""
            THEN /\ notice' = Notice("error", "Please enter an agent name")
                 /\ UNCHANGED <<state, screen, app>>
            ELSE /\ state' = [state EXCEPT !.agent_name = name,
                                           !.agent_description = "d"]
                 /\ screen' = "main"
                 /\ app' = [app EXCEPT !.focused_input = FALSE]
                 /\ UNCHANGED notice
       ELSE /\ screen' = "main"
            /\ Exit(NoneVal, 0)
            /\ UNCHANGED <<state, notice>>
    /\ UNCHANGED <<selected_node, disk, written, generated, rendered, proc, wrapper, ret, jira, memory>>

\* action_quit (ESC, Ctrl+C) and on_button_pressed for "close-button"
action_quit ==
    /\ Live
    /\ IF app.focused_input
       THEN app' = [app EXCEPT !.focused_input = FALSE]
       ELSE Exit(NoneVal, 0)
    /\ UNCHANGED <<state, selected_node, notice, screen, disk, written, generated,
                   rendered, proc, wrapper, ret, jira, memory>>

\* on_tree_node_selected: the tree shows the ids of state.nodes
on_tree_node_selected(node_id) ==
    /\ Live
    /\ node_id \in IdsOf(state.nodes)
    /\ selected_node' = Some(node_id)
    /\ UNCHANGED <<state, notice, screen, app, disk, written, generated, rendered, proc,
                   wrapper, ret, jira, memory>>

\* what a modal that was dismissed with None leaves as the last notice:
\* its own refusal of an incomplete Save, if there was one
AfterCancel(rejected, text) ==
    /\ notice' = (IF rejected THEN Notice("error", text) ELSE notice)
    /\ UNCHANGED state

\* action_new_node with the value NodeEditorModal() was dismissed with
action_new_node(result, rejected) ==
    /\ Live
    /\ IF result = NoneVal
       THEN AfterCancel(rejected, "Please fill in ID and Name")
       ELSE Apply(new_node(state, result[1]))
    /\ UNCHANGED <<selected_node, screen, app, disk, written, generated, rendered, proc,
                   wrapper, ret, jira, memory>>

\* action_edit_node with the value NodeEditorModal(node) was dismissed with
action_edit_node(names, result, rejected) ==
    /\ Live
    /\ IF selected_node = NoneVal
       THEN /\ notice' = Notice("warning", "Select a node first")
            /\ UNCHANGED state
       ELSE LET found == FirstWithId(state.nodes, selected_node[1]) IN
            IF found = NoneVal
            THEN UNCHANGED <<state, notice>>
            ELSE /\ result \in NodeEditorModal_results(found[1], {}, names)
                 /\ IF result = NoneVal
                    THEN AfterCancel(rejected, "Please fill in ID and Name")
                    ELSE Apply(edit_node(state, found[1], result[1]))
    /\ UNCHANGED <<selected_node, screen, app, disk, written, generated, rendered, proc,
                   wrapper, ret, jira, memory>>

\* action_delete_node
action_delete_node ==
    /\ Live
    /\ IF selected_node = NoneVal
       THEN /\ notice' = Notice("warning", "Select a node first")
            /\ UNCHANGED state
       ELSE Apply(delete_node(state, selected_node[1]))
    /\ UNCHANGED <<selected_node, screen, app, disk, written, generated, rendered, proc,
                   wrapper, ret, jira, memory>>

\* action_edit_goal with the value GoalEditorModal was dismissed with
action_edit_goal(result, rejected) ==
    /\ Live
    /\ IF result = NoneVal
       THEN AfterCancel(rejected, "Please enter a goal name")
       ELSE /\ state' = [state EXCEPT !.goal = result]
            /\ notice' = Notice("information", "Goal updated: {name}")
    /\ UNCHANGED <<selected_node, screen, app, disk, written, generated, rendered, proc,
                   wrapper, ret, jira, memory>>

\* action_generate; generate() raises at step fail_at, or not at all (0)
action_generate(fail_at) ==
    /\ Live
    /\ IF generate_checks(state) # ""
       THEN /\ notice' = Notice("error", generate_checks(state))
            /\ UNCHANGED <<app, disk, written, generated, rendered>>
       ELSE /\ fail_at \in FailPoints(state)
            /\ LET g == generate(state, disk, fail_at) IN
               /\ disk' = g.disk
               /\ written' = g.written
               /\ rendered' = rendered \cup {Facts(state)}
               /\ IF g.ok
                  THEN /\ notice' = Notice("information", "Agent generated at {path}")
                       /\ generated' = TRUE
                       /\ Exit(NoneVal, 0)
                  ELSE /\ notice' = Notice("error", "Error generating agent: {e}")
                       /\ UNCHANGED <<app, generated>>
    /\ UNCHANGED <<state, selected_node, screen, proc, wrapper, ret, jira, memory>>

(***************************************************************************)
(* screens.py: actions. The wizard screens are constructed on the session's *)
(* ComposerState; their handlers act on it and notify through the app.     *)
(***************************************************************************)
\* NodeEditorScreen.on_button_pressed, "add-node"
NodeEditorScreen_add_node(raw_id, raw_name, tools_text) ==
    /\ Live
    /\ Apply(wizard_add_node(state, raw_id, raw_name, tools_text))
    /\ UNCHANGED <<selected_node, screen, app, disk, written, generated, rendered, proc,
                   wrapper, ret, jira, memory>>

\* EdgeWiringScreen.on_button_pressed, "add-edge"
EdgeWiringScreen_add_edge(raw_source, raw_target) ==
    /\ Live
    /\ Len(state.edges) < MaxEdges
    /\ Apply(wizard_add_edge(state, raw_source, raw_target))
    /\ UNCHANGED <<selected_node, screen, app, disk, written, generated, rendered, proc,
                   wrapper, ret, jira, memory>>

\* ReviewScreen.on_button_pressed, "generate"
ReviewScreen_generate(fail_at) ==
    /\ Live
    /\ IF ~is_complete(state)
       THEN /\ notice' = Notice("error", "Agent configuration incomplete!")
            /\ UNCHANGED <<app, disk, written, generated, rendered>>
       ELSE /\ fail_at \in FailPoints(state)
            /\ LET g == generate(state, disk, fail_at) IN
               /\ disk' = g.disk
               /\ written' = g.written
               /\ rendered' = rendered \cup {Facts(state)}
               /\ IF g.ok
                  THEN /\ notice' = Notice("information", "Agent generated at {path}!")
                       /\ generated' = TRUE
                       /\ Exit(Some(0), 0)
                  ELSE /\ notice' = Notice("error", "Error: {e}")
                       /\ UNCHANGED <<app, generated>>
    /\ UNCHANGED <<state, selected_node, screen, proc, wrapper, ret, jira, memory>>


(***************************************************************************)
(* __main__.py and cli_wrapper.py                                          *)
(***************************************************************************)
\* sys.exit(exit_code if exit_code else 0) with exit_code = app.run(), the
\* value handed to App.exit() as its result
main_exit_status(exit_code) ==
    IF TruthyOptInt(exit_code) THEN exit_code[1] ELSE 0

\* main(): app.run() has returned
main ==
    /\ app.exited /\ proc = NoneVal
    /\ proc' = Some(main_exit_status(app.return_value))
    /\ UNCHANGED <<state, selected_node, notice, screen, app, disk, written, generated,
                   rendered, wrapper, ret, jira, memory>>

\* the composer process ends without reaching sys.exit: an uncaught
\* exception of the interpreter (status 1) or a signal (negative status)
AbortCodes == {1, -15}

composer_abort(rc) ==
    /\ Running
    /\ proc' = Some(rc)
    /\ UNCHANGED <<state, selected_node, notice, screen, app, disk, written, generated,
                   rendered, wrapper, ret, jira, memory>>

wrapper_runs_unless_one(w, rc) ==
    IF rc # 1
    THEN [w EXCEPT !.pc = "runtime", !.composer_rc = Some(rc)]
    ELSE [w EXCEPT !.pc = "done", !.composer_rc = Some(rc), !.result = Some(rc)]

\* run_composer_then_runtime after subprocess.run of the composer returned
\* rc: the runtime is launched, or rc is returned
wrapper_after_composer(w, rc) ==
    IF rc = 0
    THEN [w EXCEPT !.pc = "runtime", !.composer_rc = Some(rc)]
    ELSE [w EXCEPT !.pc = "done", !.composer_rc = Some(rc), !.result = Some(rc)]

\* run_composer_then_runtime: the composer process has ended
composer_returns ==
    /\ wrapper.pc = "composer" /\ proc # NoneVal
    /\ wrapper' = wrapper_after_composer(wrapper, proc[1])
    /\ UNCHANGED <<state, selected_node, notice, screen, app, disk, written, generated,
                   rendered, proc, ret, jira, memory>>

\* run_composer_then_runtime: the runtime process has ended with rc
runtime_returns(rc) ==
    /\ wrapper.pc = "runtime"
    /\ wrapper' = [wrapper EXCEPT !.pc = "done", !.runtime_rc = Some(rc),
                                  !.result = Some(rc)]
    /\ UNCHANGED <<state, selected_node, notice, screen, app, disk, written, generated,
                   rendered, proc, ret, jira, memory>>

(***************************************************************************)
(* Specifications                                                          *)
(***************************************************************************)
NewNode == NodeData("", "", <<>>)

\* The interactive session and its launcher
Next ==
    \/ \E v \in AgentNameInputs : on_input_changed(v)
    \/ \E b \in {"create", "cancel"} : show_agent_info_modal(b)
    \/ action_quit
    \/ \E id \in SessionNodeIds : on_tree_node_selected(id)
    \/ \E r \in NodeEditorModal_results(NewNode, SessionNodeIds \cup {""}, {"", "x"}),
          rejected \in BOOLEAN : action_new_node(r, rejected)
    \/ \E r \in {NoneVal} \cup {Some(NodeData(i, "x", <<>>)) : i \in SessionNodeIds},
          rejected \in BOOLEAN : action_edit_node({"", "x"}, r, rejected)
    \/ action_delete_node
    \/ \E r \in GoalEditorModal_results(GoalNameInputs), rejected \in BOOLEAN :
          action_edit_goal(r, rejected)
    \/ \E k \in FailPoints(state) : action_generate(k)
    \/ \E i \in SessionRawIdInputs : NodeEditorScreen_add_node(i, "", "")
    \/ \E k \in FailPoints(state) : ReviewScreen_generate(k)
    \/ main
    \/ \E rc \in AbortCodes : composer_abort(rc)
    \/ composer_returns
    \/ \E rc \in ReturnCodes : runtime_returns(rc)

Spec == Init /\ [][Next]_vars

\* The graph mutation operations, from the empty graph of a named agent
InitGraph ==
    /\ state = [ComposerState EXCEPT !.agent_name = "agent",
                                     !.agent_description = "d"]
    /\ selected_node = NoneVal
    /\ notice = NoNotice
    /\ screen = "main"
    /\ app = AppRunning
    /\ disk = {}
    /\ written = <<>>
    /\ generated = FALSE
    /\ rendered = {}
    /\ proc = NoneVal
    /\ wrapper = WrapperWaiting
    /\ ret = NoneVal
    /\ jira = JiraIdle
    /\ memory = MemoryFresh

\* the inputs of the modals and of the wizard screens
ModalNames == {"", "x"}
WizardToolTexts == {"", "t"}
NewNodeResults == NodeEditorModal_results(NewNode, NodeIds \cup {""}, ModalNames)
EditNodeResults == {NoneVal} \cup {Some(NodeData(i, n, t)) :
                        i \in NodeIds, n \in ModalNames \ {""},
                        t \in {ParseTools(x) : x \in WizardToolTexts}}
GoalResults == GoalEditorModal_results(GoalNameInputs)

\* the graph operations of the TUI, the wizard's add-edge and the goal editor
NextGraph ==
    \/ \E id \in NodeIds : on_tree_node_selected(id)
    \/ \E r \in NewNodeResults, rejected \in BOOLEAN : action_new_node(r, rejected)
    \/ \E r \in EditNodeResults, rejected \in BOOLEAN :
          action_edit_node(ModalNames, r, rejected)
    \/ action_delete_node
    \/ \E r \in GoalResults, rejected \in BOOLEAN : action_edit_goal(r, rejected)
    \/ \E i \in RawIdInputs, j \in RawIdInputs : EdgeWiringScreen_add_edge(i, j)

SpecGraph == InitGraph /\ [][NextGraph]_vars

\* the node operations of both flows, with node names and tool lists that differ
NextNodes ==
    \/ \E id \in NodeIds : on_tree_node_selected(id)
    \/ \E r \in NewNodeResults, rejected \in BOOLEAN : action_new_node(r, rejected)
    \/ \E r \in EditNodeResults, rejected \in BOOLEAN :
          action_edit_node(ModalNames, r, rejected)
    \/ action_delete_node
    \/ \E i \in RawIdInputs, t \in WizardToolTexts : NodeEditorScreen_add_node(i, "", t)

SpecNodes == InitGraph /\ [][NextNodes]_vars

\* nodes added, updated and deleted in the TUI, edges wired in the wizard
NextEdges ==
    \/ \E id \in NodeIds : on_tree_node_selected(id)
    \/ \E r \in NewNodeResults, rejected \in BOOLEAN : action_new_node(r, rejected)
    \/ \E r \in EditNodeResults, rejected \in BOOLEAN :
          action_edit_node(ModalNames, r, rejected)
    \/ action_delete_node
    \/ \E i \in RawIdInputs, j \in RawIdInputs : EdgeWiringScreen_add_edge(i, j)

SpecEdges == InitGraph /\ [][NextEdges]_vars

\* is_complete() applied to ComposerState values built field by field
NodeLists ==
    {<<>>} \cup {<<NodeData(i, "x", <<>>)>> : i \in SessionNodeIds}
    \cup {<<NodeData(p[1], "x", <<>>), NodeData(p[2], "x", <<>>)>> :
            p \in {q \in SessionNodeIds \X SessionNodeIds : q[1] # q[2]}}

InitIsComplete ==
    /\ \E n \in AgentNameInputs, g \in GoalEditorModal_results(GoalNameInputs),
          ns \in NodeLists, e \in {NoneVal} \cup {Some(i) : i \in SessionNodeIds} :
          state = [ComposerState EXCEPT !.agent_name = n, !.goal = g,
                                        !.nodes = ns, !.entry_node = e]
    /\ selected_node = NoneVal
    /\ notice = NoNotice
    /\ screen = "main"
    /\ app = AppRunning
    /\ disk = {}
    /\ written = <<>>
    /\ generated = FALSE
    /\ rendered = {}
    /\ proc = NoneVal
    /\ wrapper = WrapperWaiting
    /\ ret = NoneVal
    /\ jira = JiraIdle
    /\ memory = MemoryFresh

\* a call of state.is_complete()
is_complete_call ==
    /\ ret' = Some(is_complete(state))
    /\ UNCHANGED <<jira, memory, state, selected_node, notice, screen, app, disk,
                   written, generated, rendered, proc, wrapper>>

NextIsComplete == is_complete_call

SpecIsComplete == InitIsComplete /\ [][NextIsComplete]_vars


\* CodeGenerator.generate() called on ComposerState values built field by
\* field, on an output location that is empty or holds earlier output
ToolSelections == {<<>>, <<"jira">>}

InitialDisks ==
    {{},
     {".", "mcp_servers.json"},
     {".", "nodes", "__init__.py", "__main__.py", "agent.py", "config.py",
      "nodes/__init__.py", "mcp_servers.json"}}

InitGenerate ==
    /\ \E n \in AgentNameInputs, g \in GoalEditorModal_results(GoalNameInputs),
          ns \in NodeLists, e \in {NoneVal} \cup {Some(i) : i \in SessionNodeIds},
          t \in ToolSelections :
          state = [ComposerState EXCEPT !.agent_name = n, !.goal = g, !.nodes = ns,
                                        !.entry_node = e, !.selected_tools = t]
    /\ selected_node = NoneVal
    /\ notice = NoNotice
    /\ screen = "main"
    /\ app = AppRunning
    /\ disk \in InitialDisks
    /\ written = <<>>
    /\ generated = FALSE
    /\ rendered = {}
    /\ proc = NoneVal
    /\ wrapper = WrapperWaiting
    /\ ret = NoneVal
    /\ jira = JiraIdle
    /\ memory = MemoryFresh

\* a call generator.generate(state, output_path); ret is whether it returned
\* (TRUE) or raised (FALSE)
generate_call(fail_at) ==
    /\ fail_at \in FailPoints(state)
    /\ LET g == generate(state, disk, fail_at) IN
       /\ disk' = g.disk
       /\ written' = g.written
       /\ ret' = Some(g.ok)
       /\ generated' = (generated \/ g.ok)
       /\ rendered' = rendered \cup {Facts(state)}
    /\ UNCHANGED <<state, selected_node, notice, screen, app, proc, wrapper, jira, memory>>

NextGenerate == \E k \in FailPoints(state) : generate_call(k)

SpecGenerate == InitGenerate /\ [][NextGenerate]_vars


\* generate() and should_compose() called on the same location in any order
should_compose_call ==
    /\ ret' = Some(should_compose(disk))
    /\ UNCHANGED <<state, selected_node, notice, screen, app, disk, written, generated,
                   rendered, proc, wrapper, jira, memory>>

NextCompose ==
    \/ \E k \in FailPoints(state) : generate_call(k)
    \/ should_compose_call

SpecCompose == InitGenerate /\ [][NextCompose]_vars

\* generate() called again and again on one location, first absent, each
\* time with a state built with another tool selection; every call returns
InitRegenerate ==
    /\ InitGenerate
    /\ disk = {}

generate_with_tools(tools) ==
    LET s == [state EXCEPT !.selected_tools = tools]
        g == generate(s, disk, 0)
    IN /\ state' = s
       /\ disk' = g.disk
       /\ written' = g.written
       /\ ret' = Some(g.ok)
       /\ generated' = (generated \/ g.ok)
       /\ rendered' = rendered \cup {Facts(s)}
       /\ UNCHANGED <<selected_node, notice, screen, app, proc, wrapper, jira, memory>>

NextRegenerate == \E t \in ToolSelections : generate_with_tools(t)

SpecRegenerate == InitRegenerate /\ [][NextRegenerate]_vars

\* The Jira tool server: the tools called one after another on a fixed
\* configuration, the network answering each request or failing it
JiraBaseUrls == {NoneVal, Some(""), Some("https://j/")}

EnvSettings ==
    {JiraSettings(b, e, t, p) :
        b \in JiraBaseUrls, e \in {NoneVal, Some("a@b.c")},
        t \in {NoneVal, Some(""), Some("tok")}, p \in {NoneVal, Some("pat")}}

StoreSettings ==
    {NoSettings,
     JiraSettings(Some("https://j/"), Some("a@b.c"), Some("tok"), NoneVal),
     JiraSettings(Some("https://j"), NoneVal, NoneVal, Some("pat")),
     JiraSettings(Some("https://j"), NoneVal, NoneVal, NoneVal)}

JiraConfigs ==
    {[credentials |-> c, env |-> e] :
        c \in {NoneVal} \cup {Some(s) : s \in StoreSettings}, e \in EnvSettings}

BodyNotJson == Body("none", <<>>, <<>>, <<>>, <<>>, "Bad Gateway")
BodyArray == Body("array", <<>>, <<>>, <<>>, <<>>, "[]")
BodyObject == Body("object", <<>>, <<>>, <<>>, <<>>, "{}")
BodyErrors == Body("object", <<"e1", "e2">>, <<>>, <<>>, <<>>, "{errorMessages}")
BodyIssues ==
    Body("object", <<>>,
         <<Issue(Some("P-1"), Some("1"), Some("s"), Obj("Open"), Obj("Ann")),
           Issue(NoneVal, Some("2"), NoneVal, Absent, Absent)>>,
         <<>>, <<>>, "{issues}")
BodyIssueUnassigned ==
    Body("object", <<>>,
         <<Issue(Some("P-3"), Some("3"), Some("s"), Obj("Open"), Null)>>,
         <<>>, <<>>, "{issues}")
BodyTransitions ==
    Body("object", <<>>, <<>>,
         <<[name |-> "In Progress", id |-> Some("21")],
           [name |-> "Done", id |-> Some("31")],
           [name |-> "DONE", id |-> Some("41")]>>,
         <<>>, "{transitions}")
BodyAttachments ==
    Body("object", <<>>, <<>>, <<>>,
         <<Attachment("7", "a.txt", Obj("Ann")), Attachment("8", "b.txt", Null)>>,
         "{fields}")

Bodies == {BodyNotJson, BodyArray, BodyObject, BodyErrors, BodyIssues,
           BodyIssueUnassigned, BodyTransitions, BodyAttachments}

HttpxErrors ==
    {Exc("TimeoutException", "Timeout"), Exc("ReadTimeout", "The read operation timed out"),
     Exc("ConnectError", "Connection refused"), Exc("RequestError", "Network error")}

Answer(status_code, body) ==
    [exception |-> NoneVal, status_code |-> status_code, body |-> body]

Failure(e) == [exception |-> Some(e), status_code |-> 0, body |-> EmptyMapping]

Outcomes ==
    {Failure(e) : e \in HttpxErrors}
    \cup {Answer(s, b) : s \in {200, 204, 404, 500}, b \in Bodies}

PostOutcomes ==
    {Failure(e) : e \in HttpxErrors}
    \cup {Answer(204, BodyNotJson), Answer(200, BodyObject), Answer(400, BodyErrors)}

OptTexts == {NoneVal, Some(""), Some("s")}
MaxResultsInputs == {-1, 0, 50, 101}
TransitionNames == {NoneVal, Some(""), Some("done"), Some("Closed")}
TransitionIds == {NoneVal, Some(""), Some("99")}

InitJira ==
    /\ state = ComposerState
    /\ selected_node = NoneVal
    /\ notice = NoNotice
    /\ screen = "main"
    /\ app = AppRunning
    /\ disk = {}
    /\ written = <<>>
    /\ generated = FALSE
    /\ rendered = {}
    /\ proc = NoneVal
    /\ wrapper = WrapperWaiting
    /\ ret = NoneVal
    /\ \E c \in JiraConfigs : jira = [JiraIdle EXCEPT !.config = c]
    /\ memory = MemoryFresh

NextJira ==
    \/ tool_result_delivered
    \/ \E o \in Outcomes : jira_create_issue(o)
    \/ \E f \in {NoneVal, Some(<<>>), Some(<<"summary">>)}, o \in Outcomes :
          jira_get_issue("P-1", f, o)
    \/ \E s \in OptTexts, p \in OptTexts, l \in {NoneVal, Some(<<>>)}, o \in Outcomes :
          jira_update_issue("P-1", s, NoneVal, NoneVal, p, l, o)
    \/ \E f \in {NoneVal, Some(<<>>)}, m \in MaxResultsInputs, o \in Outcomes :
          jira_search_issues("project = P", f, m, o)
    \/ \E n \in TransitionNames, i \in TransitionIds,
          o1 \in Outcomes, o2 \in PostOutcomes :
          jira_transition_issue("P-1", n, i, <<o1, o2>>)
    \/ \E c \in {"aGk=", "a"}, o \in Outcomes :
          jira_add_attachment("P-1", "a.txt", c, o)
    \/ \E o \in Outcomes : jira_list_attachments("P-1", o)
    \/ \E m \in MaxResultsInputs, o \in Outcomes : jira_find_user(m, o)
    \/ \E o \in Outcomes : jira_get_myself(o)
    \/ \E o \in Outcomes : jira_add_worklog("P-1", o)
    \/ \E o \in Outcomes : jira_list_worklogs("P-1", o)
    \/ \E m \in MaxResultsInputs, o \in Outcomes : jira_list_projects(m, o)

SpecJira == InitJira /\ [][NextJira]_vars

\* The tools that take a search size, a field update or a transition, called
\* one after another on a server that is configured
ConfiguredJiraConfigs ==
    {[credentials |-> Some(JiraSettings(Some("https://j/"), Some("a@b.c"),
                                        Some("tok"), NoneVal)),
      env |-> NoSettings],
     [credentials |-> NoneVal,
      env |-> JiraSettings(Some("https://j"), NoneVal, NoneVal, Some("pat"))]}

BodyTransitionWithoutId ==
    Body("object", <<>>, <<>>,
         <<[name |-> "Done", id |-> NoneVal], [name |-> "DONE", id |-> Some("41")]>>,
         <<>>, "{transitions}")

LookupOutcomes == Outcomes \cup {Answer(200, BodyTransitionWithoutId)}

TransitionOutcomes ==
    {Failure(Exc("TimeoutException", "Timeout")), Answer(204, BodyNotJson),
     Answer(400, BodyErrors)}

LabelInputs == {NoneVal, Some(<<>>), Some(<<"l">>)}

InitJiraCalls ==
    /\ state = ComposerState
    /\ selected_node = NoneVal
    /\ notice = NoNotice
    /\ screen = "main"
    /\ app = AppRunning
    /\ disk = {}
    /\ written = <<>>
    /\ generated = FALSE
    /\ rendered = {}
    /\ proc = NoneVal
    /\ wrapper = WrapperWaiting
    /\ ret = NoneVal
    /\ \E c \in ConfiguredJiraConfigs : jira = [JiraIdle EXCEPT !.config = c]
    /\ memory = MemoryFresh

NextJiraCalls ==
    \/ tool_result_delivered
    \/ \E s \in OptTexts, d \in OptTexts, a \in {NoneVal, Some("")}, p \in OptTexts,
          l \in LabelInputs, o \in PostOutcomes :
          jira_update_issue("P-1", s, d, a, p, l, o)
    \/ \E f \in {NoneVal, Some(<<>>)}, m \in MaxResultsInputs, o \in Outcomes :
          jira_search_issues("project = P", f, m, o)
    \/ \E n \in TransitionNames, i \in TransitionIds,
          o1 \in LookupOutcomes, o2 \in TransitionOutcomes :
          jira_transition_issue("P-1", n, i, <<o1, o2>>)
    \/ \E m \in MaxResultsInputs, o \in Outcomes : jira_find_user(m, o)
    \/ \E m \in MaxResultsInputs, o \in Outcomes : jira_list_projects(m, o)

SpecJiraCalls == InitJiraCalls /\ [][NextJiraCalls]_vars

\* The memory of an agent: state calls and driver calls in any order, the
\* clock moving on between them
StateValues ==
    {PyValue("str", "3"), PyValue("int", "3"), PyValue("tuple", "1, 2"),
     PyValue("datetime", "2026-01-01 00:00:00")}

InitMemory ==
    /\ state = ComposerState
    /\ selected_node = NoneVal
    /\ notice = NoNotice
    /\ screen = "main"
    /\ app = AppRunning
    /\ disk = {}
    /\ written = <<>>
    /\ generated = FALSE
    /\ rendered = {}
    /\ proc = NoneVal
    /\ wrapper = WrapperWaiting
    /\ ret = NoneVal
    /\ jira = JiraIdle
    /\ memory = MemoryFresh

NextMemory ==
    \/ \E k \in {"step", "_updated_at"}, v \in StateValues : update_state(k, v)
    \/ \E k \in {NoneVal, Some("step"), Some("contact_id"), Some("_updated_at")} :
          get_state(k)
    \/ clear_state
    \/ add("HubSpot 403 means scope missing")
    \/ \E t \in 0..MaxSeconds, n \in 0..MaxEntries : delete(entry_id(t, n))
    \/ second_passes

SpecMemory == InitMemory /\ [][NextMemory]_vars

\* _handle_response on responses of every class of status
Statuses == {200, 201, 204, 302, 399, 400, 401, 403, 404, 409, 429, 500, 503}

Responses ==
    {Response(s, u, b) :
        s \in Statuses, u \in {"https://j/rest/api/3/myself", "https://j/rest/api/3/issue/P-1"}, b \in Bodies}

InitHandleResponse ==
    /\ state = ComposerState
    /\ selected_node = NoneVal
    /\ notice = NoNotice
    /\ screen = "main"
    /\ app = AppRunning
    /\ disk = {}
    /\ written = <<>>
    /\ generated = FALSE
    /\ rendered = {}
    /\ proc = NoneVal
    /\ wrapper = WrapperWaiting
    /\ ret = NoneVal
    /\ jira = JiraIdle
    /\ memory = MemoryFresh

NextHandleResponse == \E r \in Responses : handle_response_call(r)

SpecHandleResponse == InitHandleResponse /\ [][NextHandleResponse]_vars


(***************************************************************************)
(* Properties                                                              *)
(***************************************************************************)
\* the four conditions of completeness, stated on the fields
AllFourSet(s) ==
    /\ s.agent_name # ""
    /\ s.goal # NoneVal
    /\ Len(s.nodes) > 0
    /\ s.entry_node # NoneVal

\* C1: is_complete() returns true exactly when the agent name is non-empty,
\* a goal is set, the node list is non-empty and entry_node is set, and the
\* call leaves every field of the state as it was.
C1_IsCompleteIffAllFourSet ==
    /\ [](ret # NoneVal => ret[1] = AllFourSet(state))
    /\ [][state' = state]_vars

\* is_complete() has answered False on a state that lacks only the entry node
C1_Witness ==
    /\ ret = Some(FALSE)
    /\ state.agent_name # "" /\ state.goal # NoneVal /\ Len(state.nodes) = 2
    /\ state.entry_node = NoneVal

AddRejected ==
    /\ state'.nodes = state.nodes
    /\ state'.entry_node = state.entry_node
    /\ state'.terminal_nodes = state.terminal_nodes
    /\ notice'.severity = "error"

\* C2: in both add-node flows, adding a node whose id is the id of a node
\* already in the list is refused with an error notification and leaves the
\* node list, entry_node and terminal_nodes as they were.
C2_DuplicateAddRejected ==
    [][\A id \in IdsOf(state.nodes) :
          /\ \A n \in ModalNames \ {""} :
                action_new_node(Some(NodeData(id, n, <<>>)), FALSE) => AddRejected
          /\ \A i \in RawIdInputs, t \in WizardToolTexts :
                (Strip(i) = id /\ NodeEditorScreen_add_node(i, "", t)) => AddRejected
      ]_vars

\* the TUI has just refused a duplicate id while two nodes are in the list
C2_Witness ==
    /\ notice = Notice("error", "Node with ID '{id}' already exists!")
    /\ Len(state.nodes) = 2

\* C3: add-edge with a source or a target that is not the id of a node in
\* the list is refused with an error and leaves the edge list unchanged;
\* with both endpoints present the edge is appended at the end of the list.
C3_AddEdgeChecksEndpoints ==
    [][\A i \in RawIdInputs, j \in RawIdInputs :
          EdgeWiringScreen_add_edge(i, j) =>
             IF Strip(i) \in IdsOf(state.nodes) /\ Strip(j) \in IdsOf(state.nodes)
             THEN state'.edges =
                     state.edges \o <<[source |-> Strip(i), target |-> Strip(j),
                                       condition |-> "on_success"]>>
             ELSE state'.edges = state.edges /\ notice'.severity = "error"
      ]_vars

\* an edge with an unknown target has just been refused while the list
\* already holds an edge
C3_Witness ==
    /\ notice = Notice("error", "Target node '{target}' not found")
    /\ Len(state.edges) = 1
    /\ Len(state.nodes) = 2

\* C4: delete-node of id X removes from the node list exactly the node with
\* id X and from the edge list exactly the edges whose source or target is
\* X; all other nodes and edges stay, in their order.
C4_DeleteRemovesNodeAndItsEdges ==
    [][\A x \in NodeIds :
          (selected_node = Some(x) /\ action_delete_node) =>
             /\ state'.nodes = SelectSeq(state.nodes, LAMBDA n : n.id # x)
             /\ state'.edges =
                   SelectSeq(state.edges, LAMBDA e : e.source # x /\ e.target # x)
      ]_vars

\* node b has just been deleted; a and c and the edge a -> c remain
C4_Witness ==
    /\ notice = Notice("information", "Deleted node: {id}")
    /\ selected_node = Some("b")
    /\ Len(state.nodes) = 2
    /\ state.nodes[1].id = "a" /\ state.nodes[2].id = "c"
    /\ state.edges = <<EdgeData("a", "c")>>

\* C5: in action_new_node, a node added to a graph with no nodes becomes the
\* entry node and the only terminal node; a node added to a graph that has
\* nodes changes neither entry_node nor terminal_nodes.
C5_FirstNodeBecomesEntryAndTerminal ==
    [][\A r \in NewNodeResults \ {NoneVal} :
          action_new_node(r, FALSE) =>
             IF state.nodes = <<>>
             THEN /\ state'.entry_node = Some(r[1].id)
                  /\ state'.terminal_nodes = <<r[1].id>>
             ELSE /\ state'.entry_node = state.entry_node
                  /\ state'.terminal_nodes = state.terminal_nodes
      ]_vars

\* a second node has been added in the TUI; the first is still entry and terminal
C5_Witness ==
    /\ notice = Notice("information", "Added node: {id}")
    /\ Len(state.nodes) = 2
    /\ state.nodes[1].name = "x" /\ state.nodes[2].name = "x"
    /\ state.entry_node = Some(state.nodes[1].id)
    /\ state.terminal_nodes = <<state.nodes[1].id>>

\* C6: in the wizard, the first node added to an empty graph becomes the
\* entry node and the only terminal node.
C6_WizardFirstNodeBecomesEntryAndTerminal ==
    [][\A i \in RawIdInputs, t \in WizardToolTexts :
          (state.nodes = <<>> /\ Strip(i) # "" /\ NodeEditorScreen_add_node(i, "", t)) =>
             /\ state'.entry_node = Some(Strip(i))
             /\ state'.terminal_nodes = <<Strip(i)>>
      ]_vars

\* C7: entry_node is unset or is the id of a node in the node list.
C7_EntryNodeNamesANode ==
    state.entry_node = NoneVal \/ state.entry_node[1] \in IdsOf(state.nodes)

\* C8: the composer process exits with status 0 only when a generation
\* succeeded in the session.
C8_ExitZeroOnlyAfterGeneration ==
    (proc # NoneVal /\ proc[1] = 0) => generated

RuntimeStarted == wrapper.pc = "runtime" \/ wrapper.runtime_rc # NoneVal

\* C9: the launcher starts the runtime only once the composer has ended, and
\* exactly when it ended with return code 0; it returns the runtime's
\* return code if the runtime ran and the composer's return code otherwise.
C9_RuntimeIffComposerReturnedZero ==
    /\ RuntimeStarted => (proc = Some(0) /\ wrapper.composer_rc = Some(0))
    /\ wrapper.pc = "done" =>
          /\ wrapper.composer_rc = proc
          /\ RuntimeStarted <=> proc = Some(0)
          /\ IF RuntimeStarted
             THEN wrapper.result = wrapper.runtime_rc
             ELSE wrapper.result = proc /\ proc # Some(0)

\* the composer ended with a signal: no runtime, its status is returned
C9_Witness ==
    /\ wrapper.pc = "done"
    /\ proc = Some(-15)
    /\ wrapper.result = Some(-15)
    /\ wrapper.runtime_rc = NoneVal

\* C10: generate() is only ever handed a state with all four conditions
\* set; either generate trigger, on a state that lacks one, notifies an
\* error, writes nothing and does not exit.
C10_GenerateOnlyWhenComplete ==
    /\ [](\A f \in rendered : f = <<TRUE, TRUE, TRUE, TRUE>>)
    /\ [][\A k \in FailPoints(state) :
             (~AllFourSet(state) /\ (action_generate(k) \/ ReviewScreen_generate(k))) =>
                /\ notice'.severity = "error"
                /\ disk' = disk
                /\ app' = app
                /\ generated' = generated
         ]_vars

\* the TUI has refused to generate an agent that has a node but no goal
C10_Witness ==
    /\ notice = Notice("error", "Missing: Agent goal (Press O to edit goal)")
    /\ Len(state.nodes) > 0
    /\ state.goal = NoneVal
    /\ ~app.exited
    /\ disk = {}
    /\ written = <<>>

\* the directories generate() makes; every other path on disk is a file
Directories == {".", "nodes"}

Files(d) == d \ Directories

CoreFiles ==
    {"__init__.py", "__main__.py", "agent.py", "config.py", "nodes/__init__.py"}

\* C11 (as the spec states it): rendering a complete graph into an empty
\* output location produces exactly six artifacts when no tool is selected
\* and exactly seven when at least one tool id is selected.
C11_SixOrSevenArtifacts ==
    [][(disk = {} /\ is_complete(state) /\ generate_call(0)) =>
          /\ Cardinality(Files(disk')) = IF state.selected_tools = <<>> THEN 6 ELSE 7
          /\ Len(written') = IF state.selected_tools = <<>> THEN 6 ELSE 7
      ]_vars

\* C11 (amended): rendering a complete graph into an empty output location
\* produces exactly five files when no tool is selected (the five core
\* files) and exactly six when at least one tool id is selected (the five
\* core files and the tool manifest).
C11_FiveOrSixArtifacts ==
    [][(disk = {} /\ is_complete(state) /\ generate_call(0)) =>
          /\ ret' = Some(TRUE)
          /\ Cardinality(Files(disk')) = IF state.selected_tools = <<>> THEN 5 ELSE 6
          /\ Len(written') = IF state.selected_tools = <<>> THEN 5 ELSE 6
      ]_vars

\* a complete graph with a tool selected has been rendered once: six files
C11_Witness ==
    /\ ret = Some(TRUE)
    /\ is_complete(state)
    /\ state.selected_tools # <<>>
    /\ Len(written) = 6
    /\ Files(disk) = CoreFiles \cup {"mcp_servers.json"}

\* C12: a generate() call that returns has written the five core files, for
\* every state, and has written mcp_servers.json in that call exactly when
\* state.selected_tools is non-empty.
C12_CoreFilesAndConditionalManifest ==
    [][\A k \in FailPoints(state) :
          (generate_call(k) /\ ret' = Some(TRUE)) =>
             /\ CoreFiles \subseteq Range(written')
             /\ CoreFiles \subseteq disk'
             /\ "mcp_servers.json" \in Range(written') <=> state.selected_tools # <<>>
             /\ Range(written') \subseteq CoreFiles \cup {"mcp_servers.json"}
      ]_vars

\* a state with no tool selected and no goal has been rendered over earlier
\* output: the old manifest is still there, this call did not write it
C12_Witness ==
    /\ ret = Some(TRUE)
    /\ state.selected_tools = <<>>
    /\ state.goal = NoneVal
    /\ Range(written) = CoreFiles
    /\ "mcp_servers.json" \in disk

\* C13: a generate() call that follows a call that returned, with the same
\* state and output location, returns too (the directories and files that
\* are already there are not an error) and leaves the same set of files.
C13_SecondGenerateSameFileSet ==
    [][(ret = Some(TRUE) /\ generate_call(0)) =>
          /\ ret' = Some(TRUE)
          /\ disk' = disk
          /\ written' = written
      ]_vars

\* generate() has returned on an output location that first was empty
C13_Witness ==
    /\ ret = Some(TRUE)
    /\ generated
    /\ disk = Directories \cup CoreFiles
    /\ Len(written) = 5

\* C14: the artifacts are written in the order __init__.py, __main__.py,
\* agent.py, config.py, nodes/__init__.py, mcp_servers.json; when step k of
\* a call fails the call raises, nothing after step k is written, and what
\* was written before step k, and what was on disk before the call, stays.
C14_FixedOrderNoRollback ==
    [][\A k \in FailPoints(state) :
          generate_call(k) =>
             LET order == <<"__init__.py", "__main__.py", "agent.py", "config.py",
                            "nodes/__init__.py", "mcp_servers.json">>
                 n == Len(written')
             IN /\ n <= Len(order) /\ written' = SubSeq(order, 1, n)
                /\ disk \subseteq disk'
                /\ Files(disk') = Files(disk) \cup Range(written')
                /\ k # 0 =>
                      /\ ret' = Some(FALSE)
                      /\ n = IF k > 2 THEN k - 3 ELSE 0
                /\ k = 0 => ret' = Some(TRUE)
      ]_vars

\* writing config.py has failed on an empty location: the three files before
\* it are on disk, config.py and the files after it are not
C14_Witness ==
    /\ ret = Some(FALSE)
    /\ written = <<"__init__.py", "__main__.py", "agent.py">>
    /\ Files(disk) = {"__init__.py", "__main__.py", "agent.py"}

\* C15: update-node puts the edited node at the index of the node it
\* replaces; every other node and the order of the list stay; the new node
\* has the id and the tool list of the node it replaces.
C15_UpdateReplacesInPlace ==
    [][\A r \in EditNodeResults \ {NoneVal} :
          (/\ selected_node # NoneVal
           /\ selected_node[1] \in IdsOf(state.nodes)
           /\ action_edit_node(ModalNames, r, FALSE)) =>
             LET i == CHOOSE k \in 1..Len(state.nodes) :
                         state.nodes[k].id = selected_node[1]
             IN /\ Len(state'.nodes) = Len(state.nodes)
                /\ state'.nodes[i] = r[1]
                /\ state'.nodes[i].id = state.nodes[i].id
                /\ state'.nodes[i].tools = state.nodes[i].tools
                /\ \A j \in 1..Len(state.nodes) :
                      j # i => state'.nodes[j] = state.nodes[j]
      ]_vars

\* the first of two nodes, added in the wizard with a tool, has been renamed
\* in the TUI: it is still first and still has its tool
C15_Witness ==
    /\ notice = Notice("information", "Updated node: {id}")
    /\ Len(state.nodes) = 2
    /\ state.nodes[1] = NodeData("a", "x", <<"t">>)
    /\ selected_node = Some("a")

\* C16: delete-node changes the node list and the edge list only:
\* entry_node, terminal_nodes, the goal, the agent name and description and
\* the generation parameters keep their values, also when the deleted id is
\* the entry node or a terminal node.
C16_DeleteLeavesOtherFields ==
    [][action_delete_node =>
          /\ state'.entry_node = state.entry_node
          /\ state'.terminal_nodes = state.terminal_nodes
          /\ state'.goal = state.goal
          /\ state'.agent_name = state.agent_name
          /\ state'.agent_description = state.agent_description
          /\ state'.default_model = state.default_model
          /\ state'.max_tokens = state.max_tokens
          /\ state'.selected_tools = state.selected_tools
      ]_vars

\* the entry and terminal node a has been deleted while b stays and a goal
\* is set: entry_node and terminal_nodes still name a
C16_Witness ==
    /\ notice = Notice("information", "Deleted node: {id}")
    /\ selected_node = Some("a")
    /\ IdsOf(state.nodes) = {"b"}
    /\ state.entry_node = Some("a")
    /\ state.terminal_nodes = <<"a">>
    /\ state.goal # NoneVal

\* C17: no two nodes of the node list have the same id.
C17_NodeIdsUnique ==
    \A i, j \in 1..Len(state.nodes) :
        state.nodes[i].id = state.nodes[j].id => i = j

\* three nodes are in the list and the wizard has just refused a fourth
\* with the id of one of them
C17_Witness ==
    /\ Len(state.nodes) = 3
    /\ notice = Notice("error", "Node '{id}' already exists")

OnlyError(result, message) == result = [EmptyDict EXCEPT !.error = Some(message)]

\* C18: _handle_response maps the status to one outcome: 401, 403, 404 and
\* 429 each give their own fixed error; any other status >= 400 gives an
\* error that names the status code; a status < 400 gives success = True
\* with the parsed body as data, the empty mapping when the body is not JSON;
\* no result holds both 'error' and 'success'.
C18_StatusMapsToOneOutcome ==
    (jira.tool = "_handle_response") =>
       LET response == jira.response[1]
           status == response.status_code
           body == response.body
           result == jira.result
       IN /\ ~(result.error # NoneVal /\ result.success # NoneVal)
          /\ status = 401 =>
                OnlyError(result, "Invalid Jira credentials. Check JIRA_EMAIL and JIRA_API_TOKEN.")
          /\ status = 403 =>
                OnlyError(result, "Forbidden - check permissions or API token scopes.")
          /\ status = 404 =>
                OnlyError(result, "Resource not found. Check issue key or project key.")
          /\ status = 429 => OnlyError(result, "Rate limit exceeded. Try again later.")
          /\ (status >= 400 /\ status \notin {401, 403, 404, 429}) =>
                \E detail \in {body.text, "e1; e2"} :
                   OnlyError(result, "Jira API error (HTTP " \o ToString(status)
                                     \o ") at " \o response.url \o ": " \o detail)
          /\ status < 400 =>
                /\ result.error = NoneVal
                /\ result.success = Some(TRUE)
                /\ result.data = Some(IF body.kind = "none" THEN EmptyMapping ELSE body)

\* a 503 with a JSON body that lists two error messages has been mapped
C18_Witness ==
    /\ jira.tool = "_handle_response"
    /\ jira.response = Some(Response(503, "https://j/rest/api/3/myself", BodyErrors))
    /\ jira.result.error =
          Some("Jira API error (HTTP 503) at https://j/rest/api/3/myself: e1; e2")

\* the settings the tools read: the credential store when there is one
SettingsRead ==
    IF jira.config.credentials # NoneVal THEN jira.config.credentials[1]
    ELSE jira.config.env

BaseUrlConfigured ==
    SettingsRead.jira_base_url \notin {NoneVal, Some("")}

TokenConfigured ==
    \/ SettingsRead.jira_api_token \notin {NoneVal, Some("")}
    \/ SettingsRead.jira_pat \notin {NoneVal, Some("")}

\* C19: every tool, with no base URL configured, returns the error 'Jira not
\* configured', and with a base URL but neither an API token nor a PAT the
\* error 'Jira credentials not configured'; in both cases it sends no HTTP
\* request, and the answer is the same whatever the arguments of the call
\* are, the ones the tool itself would refuse included.
C19_ConfigurationCheckedFirst ==
    (jira.pc = "returned" /\ jira.tool # "_handle_response") =>
       /\ ~BaseUrlConfigured =>
             /\ jira.result.error = Some("Jira not configured")
             /\ jira.result.success = NoneVal
             /\ jira.sent = <<>>
             /\ jira.raised = NoneVal
       /\ (BaseUrlConfigured /\ ~TokenConfigured) =>
             /\ jira.result.error = Some("Jira credentials not configured")
             /\ jira.result.success = NoneVal
             /\ jira.sent = <<>>
             /\ jira.raised = NoneVal

\* jira_transition_issue has answered on a credential store that has a base
\* URL and no token, while the environment has both
C19_Witness ==
    /\ jira.pc = "returned"
    /\ jira.tool = "jira_transition_issue"
    /\ jira.config.credentials =
          Some(JiraSettings(Some("https://j"), NoneVal, NoneVal, NoneVal))
    /\ jira.config.env.jira_base_url = Some("https://j/")
    /\ jira.config.env.jira_api_token = Some("tok")
    /\ jira.result.error = Some("Jira credentials not configured")

\* C20: a tool whose HTTP call fails returns an error dict and does not
\* raise: 'Request timed out' for a timeout, 'Network error: <detail>' for
\* any other request error.
C20_HttpFailureGivesErrorDict ==
    (jira.pc = "returned" /\ jira.httpx_error # NoneVal) =>
       /\ jira.raised = NoneVal
       /\ jira.sent # <<>>
       /\ IF jira.httpx_error[1].class \in {"TimeoutException", "ReadTimeout"}
          THEN OnlyError(jira.result, "Request timed out")
          ELSE OnlyError(jira.result, "Network error: " \o jira.httpx_error[1].message)

\* jira_transition_issue has looked the transition up and its POST has run
\* into a read timeout
C20_Witness ==
    /\ jira.tool = "jira_transition_issue"
    /\ Len(jira.sent) = 2
    /\ jira.sent[2].transition_id = Some("31")
    /\ jira.httpx_error = Some(Exc("ReadTimeout", "The read operation timed out"))
    /\ jira.result.error = Some("Request timed out")

\* the requests of the last tool call that were sent with the given method
SentWith(method) == {k \in 1..Len(jira.sent) : jira.sent[k].method = method}

\* the lookup GET was answered with an error
LookupFailed(o) == o.exception # NoneVal \/ o.status_code >= 400

\* the transitions of the lookup response whose name equals the given name,
\* letter case set aside
NameMatches(o, name) ==
    {k \in 1..Len(o.body.transitions) :
        Lower(o.body.transitions[k].name) = Lower(name)}

\* what C21 says of jira_transition_issue(name, id) once it has returned, the
\* lookup GET, if sent, being answered by o
TransitionCallAsSpecified(name, id, o) ==
    LET gets == SentWith("GET")
        posts == SentWith("POST")
        matches == IF TruthyOptStr(name) THEN NameMatches(o, name[1]) ELSE {}
        first == CHOOSE k \in matches : \A j \in matches : k <= j
        byName == TruthyOptStr(name) /\ ~TruthyOptStr(id)
    IN /\ Cardinality(posts) <= 1
       /\ \A k \in posts :
             \/ TruthyOptStr(id) /\ jira.sent[k].transition_id = id
             \/ /\ byName
                /\ k = 2 /\ gets = {1}
                /\ ~LookupFailed(o)
                /\ matches # {}
                /\ jira.sent[k].transition_id = o.body.transitions[first].id
       /\ (~TruthyOptStr(name) /\ ~TruthyOptStr(id))
             => jira.sent = <<>> /\ jira.raised = NoneVal /\ jira.result.error # NoneVal
       /\ TruthyOptStr(id) => gets = {} /\ Cardinality(posts) = 1
       /\ byName => gets = {1}
       /\ (byName /\ (LookupFailed(o) \/ matches = {}))
             => /\ posts = {}
                /\ o.body.kind # "array"
                     => jira.raised = NoneVal /\ jira.result.error # NoneVal
       /\ (byName /\ ~LookupFailed(o) /\ o.body.kind # "array" /\ matches # {}
             /\ TruthyOptStr(o.body.transitions[first].id))
             => Cardinality(posts) = 1

C22_SearchResultHoldsIssuesUnderData ==
    [][\A f \in {NoneVal, Some(<<>>)}, m \in MaxResultsInputs, o \in Outcomes :
          (/\ jira_search_issues("project = P", f, m, o)
           /\ o.exception = NoneVal
           /\ o.status_code < 400
           /\ o.body.kind = "object"
           /\ \A k \in 1..Len(o.body.issues) :
                 o.body.issues[k].status # Null /\ o.body.issues[k].assignee # Null)
             => /\ jira'.raised = NoneVal
                /\ jira'.result.success = Some(TRUE)
                /\ jira'.result.data # NoneVal
                /\ jira'.result.data[1].issues = o.body.issues]_vars

\* C23: update_issue called with no field (summary, description, assignee
\* account id and priority absent or empty, labels None) returns the error
\* 'No fields to update' and sends no HTTP request; called with at least one
\* field it sends exactly one PUT, and reports success with the issue key
\* when the response status is 204.
C23_UpdateSendsOnePutUnlessNoField ==
    [][\A s \in OptTexts, d \in OptTexts, a \in {NoneVal, Some("")}, p \in OptTexts,
         l \in LabelInputs, o \in PostOutcomes :
          jira_update_issue("P-1", s, d, a, p, l, o)
             => LET noField == /\ ~TruthyOptStr(s) /\ ~TruthyOptStr(d)
                               /\ ~TruthyOptStr(a) /\ ~TruthyOptStr(p)
                               /\ l = NoneVal
                IN /\ noField
                        => /\ jira'.sent = <<>>
                           /\ jira'.raised = NoneVal
                           /\ jira'.result = ErrorDict("No fields to update")
                   /\ ~noField
                        => /\ Len(jira'.sent) = 1
                           /\ jira'.sent[1].method = "PUT"
                           /\ (o.exception = NoneVal /\ o.status_code = 204)
                                 => /\ jira'.raised = NoneVal
                                    /\ jira'.result.success = Some(TRUE)
                                    /\ jira'.result.issue_key = Some("P-1")]_vars

\* an update whose only field is an empty list of labels: one PUT, answered 204
C23_Witness ==
    /\ jira.tool = "jira_update_issue"
    /\ Len(jira.sent) = 1
    /\ jira.sent[1].method = "PUT"
    /\ jira.sent[1].fields = {"labels"}
    /\ jira.result.success = Some(TRUE)
    /\ jira.result.issue_key = Some("P-1")

\* the search size of the last tool call, as sent
SentMaxResults == {jira.sent[k].maxResults[1] : k \in {j \in 1..Len(jira.sent) : jira.sent[j].maxResults # NoneVal}}

\* C24: for every integer max_results, the maxResults sent lies in 1..100
\* for jira_search_issues and jira_list_projects and in 1..50 for
\* jira_find_user.
C24_MaxResultsWithinRange ==
    /\ jira.tool \in {"jira_search_issues", "jira_list_projects"}
          => \A m \in SentMaxResults : m \in 1..100
    /\ jira.tool = "jira_find_user" => \A m \in SentMaxResults : m \in 1..50

\* C25: get_state(k) called right after update_state(k, v), no update or
\* clear in between, returns v.
C25_GetStateReturnsUpdatedValue ==
    [][\A k \in StateKeys :
          (/\ memory.call.op = "update_state"
           /\ memory.call.key = Some(k)
           /\ get_state(Some(k)))
             => memory'.call.returned = memory.call.value]_vars

\* the ids of the stored entries
StoredIds == {memory.data.entries[i].id : i \in 1..Len(memory.data.entries)}

\* C28: after any sequence of JSONMemoryDriver.add and delete calls the ids
\* of the stored entries are pairwise distinct, also when adds and deletes
\* happen within the same second.
C28_StoredIdsDistinct ==
    Cardinality(StoredIds) = Len(memory.data.entries)

\* C26: in every state reached by add-node, update-node, delete-node and
\* add-edge, both endpoints of every edge are ids of nodes in the node list.
C26_NoDanglingEdge ==
    \A i \in 1..Len(state.edges) :
        /\ state.edges[i].source \in IdsOf(state.nodes)
        /\ state.edges[i].target \in IdsOf(state.nodes)

\* node b, the source of one edge and the target of none, has just been
\* deleted; the edge c -> a between the remaining nodes is kept
C26_Witness ==
    /\ notice = Notice("information", "Deleted node: {id}")
    /\ selected_node = Some("b")
    /\ IdsOf(state.nodes) = {"a", "c"}
    /\ state.edges = <<EdgeData("c", "a")>>

\* C27: through add-node, update-node and delete-node a non-empty node list
\* has entry_node set; entry_node, once set, is never reset to unset, and it
\* is reassigned only by an add-node performed while the node list is empty.
C27_EntryNodeSetAndStable ==
    [][/\ state'.nodes # <<>> => state'.entry_node # NoneVal
       /\ state.entry_node # NoneVal => state'.entry_node # NoneVal
       /\ state'.entry_node # state.entry_node
             => /\ state.nodes = <<>>
                /\ Len(state'.nodes) = 1
                /\ state'.entry_node = Some(state'.nodes[1].id)]_vars

\* the first node was deleted while a second one was in the list: the list
\* is non-empty and entry_node still holds the id of the deleted node
C27_Witness ==
    /\ notice = Notice("information", "Deleted node: {id}")
    /\ Len(state.nodes) = 1
    /\ state.entry_node # NoneVal
    /\ state.entry_node[1] \notin IdsOf(state.nodes)

\* C29: after any sequence of generate calls on one location that all
\* returned, mcp_servers.json is present exactly if the state of the most
\* recent call had a non-empty selected_tools.
C29_ManifestIffToolsSelected ==
    ret = Some(TRUE)
       => ("mcp_servers.json" \in disk <=> state.selected_tools # <<>>)

\* the last generate() call of the state returned
LastGenerateReturned == written = Artifacts(state)

\* C30: should_compose(P) returns False after every generate(state, P) that
\* returned, and returns True whenever P does not exist or one of agent.py,
\* config.py, nodes/__init__.py is missing under it, as it is after a
\* generate that failed before writing nodes/__init__.py into a location
\* that was absent.
C30_ShouldComposeAfterGenerate ==
    [][should_compose_call
          => /\ LastGenerateReturned => ret' = Some(FALSE)
             /\ ("." \notin disk
                 \/ \E f \in {"agent.py", "config.py", "nodes/__init__.py"} : f \notin disk)
                   => ret' = Some(TRUE)]_vars

\* generate() wrote into an absent location and returned, and should_compose
\* has answered False since
C30_Witness ==
    /\ LastGenerateReturned
    /\ disk = Directories \cup Range(Artifacts(state))
    /\ ret = Some(FALSE)

====
